---- MODULE Spec2Model ----
(***************************************************************************)
(* Pedagogical planning core of the rag-testing backend:                   *)
(*   knowledge_graph/basic_graph.py  concept DAG, topics, depth, closure   *)
(*   user_graph/user_graph.py        per-user mastery model                *)
(*   generation/plan_builder.py      bundle, teaching plan, confidence     *)
(*   app.py                          per-user store                        *)
(*                                                                         *)
(* Mastery values are Python floats in the source.  They are modelled in   *)
(* fixed point, one unit = 1e-6 (Unit = 1.0), which represents exactly     *)
(* every constant of the source (0.1, 0.05, 1e-6 per second, 0.6, ...).    *)
(* Arithmetic is therefore the exact arithmetic the source's formulas      *)
(* denote; binary rounding error of IEEE doubles is not represented.       *)
(* Wall-clock time (time.time()) is the integer variable clock, seconds.   *)
(***************************************************************************)
EXTENDS Integers, Sequences, FiniteSets, TLC

(***************************************************************************)
(* Bounds of the model                                                     *)
(***************************************************************************)
\* largest confusion_count reached per concept in Spec
MaxConfusion == 13
\* largest exposure_count reached per concept
MaxExposure == 1
\* the clock stops advancing here (seconds)
MaxClock == 50000
\* largest confusion_count reached per concept in SpecPlan
MaxPlanConfusion == 1
\* largest confusion_count reached per concept in SpecTeach
MaxTeachConfusion == 6
\* number of /generate requests in SpecRequests
MaxRequests == 2

(***************************************************************************)
(* Program constants (fixed point, 1e-6 units)                             *)
(***************************************************************************)
Unit == 1000000
CONFUSION_PENALTY_PER_COUNT == 100000
CORRECT_ANSWER_BOOST == 50000
DECAY_RATE_PER_SECOND == 1
MAX_CONCEPT_NODES == 5
MASTERY_THRESHOLD == 600000
EXAMPLE_MASTERY_CUTOFF == 400000
WEAK_PREREQ_CONFIDENCE_CAP == 500000

Max(a, b) == IF a >= b THEN a ELSE b
Min(a, b) == IF a <= b THEN a ELSE b

(***************************************************************************)
(* Python dicts: functions with a finite, growing domain                   *)
(***************************************************************************)
EmptyDict == [k \in {} |-> 0]
DictGet(d, k, default) == IF k \in DOMAIN d THEN d[k] ELSE default
DictPut(d, k, v) == IF k \in DOMAIN d THEN [d EXCEPT ![k] = v] ELSE d @@ (k :> v)
\* F(e), with e evaluated before F is applied (Python evaluates arguments first)
Strict(F(_), e) == CHOOSE r \in {F(v) : v \in {e}} : TRUE

Range(s) == {s[i] : i \in DOMAIN s}
Take(s, n) == SubSeq(s, 1, Min(n, Len(s)))
IndexOf(s, e) == CHOOSE i \in DOMAIN s : s[i] = e

(***************************************************************************)
(* basic_graph.py: the concept table and the topic table, in insertion     *)
(* order (dict order is insertion order).  Only id and depends_on of a     *)
(* concept take part in planning decisions.                                *)
(***************************************************************************)
ConceptOrder ==
  << "entity_concept",
     "accounting_equation",
     "dual_aspect",
     "debit_credit",
     "t_account",
     "accrual",
     "matching",
     "going_concern",
     "historical_cost",
     "prudence",
     "consistency",
     "materiality",
     "trial_balance",
     "depreciation",
     "linear_model",
     "perceptron",
     "activation_function",
     "neuron",
     "neural_network",
     "feedforward_network",
     "loss_function",
     "gradient",
     "gradient_descent",
     "backpropagation",
     "learning_rate",
     "overfitting",
     "underfitting",
     "regularization",
     "dropout",
     "batch_normalization",
     "convolutional_neural_network",
     "recurrent_neural_network" >>

ConceptIds == Range(ConceptOrder)

CONCEPTS ==
  [cid \in ConceptIds |->
     CASE cid = "accounting_equation" -> << "entity_concept" >>
       [] cid = "dual_aspect" -> << "accounting_equation" >>
       [] cid = "debit_credit" -> << "dual_aspect" >>
       [] cid = "t_account" -> << "debit_credit" >>
       [] cid = "accrual" -> << "entity_concept" >>
       [] cid = "matching" -> << "accrual" >>
       [] cid = "going_concern" -> << "entity_concept" >>
       [] cid = "historical_cost" -> << "entity_concept" >>
       [] cid = "prudence" -> << "accrual" >>
       [] cid = "consistency" -> << "entity_concept" >>
       [] cid = "materiality" -> << "entity_concept" >>
       [] cid = "trial_balance" -> << "t_account" >>
       [] cid = "depreciation" -> << "historical_cost", "matching" >>
       [] cid = "perceptron" -> << "linear_model" >>
       [] cid = "activation_function" -> << "perceptron" >>
       [] cid = "neuron" -> << "activation_function" >>
       [] cid = "neural_network" -> << "neuron" >>
       [] cid = "feedforward_network" -> << "neural_network" >>
       [] cid = "loss_function" -> << "neural_network" >>
       [] cid = "gradient_descent" -> << "loss_function", "gradient" >>
       [] cid = "backpropagation" -> << "gradient_descent", "neural_network" >>
       [] cid = "learning_rate" -> << "gradient_descent" >>
       [] cid = "overfitting" -> << "neural_network" >>
       [] cid = "underfitting" -> << "neural_network" >>
       [] cid = "regularization" -> << "overfitting" >>
       [] cid = "dropout" -> << "regularization" >>
       [] cid = "batch_normalization" -> << "neural_network" >>
       [] cid = "convolutional_neural_network" -> << "neural_network" >>
       [] cid = "recurrent_neural_network" -> << "neural_network" >>
       [] OTHER -> << >>]

TopicOrder ==
  << "accounts_unit_2",
     "double_aspect",
     "accounting_principles",
     "ledger_accounts",
     "depreciation_unit",
     "ml_foundations",
     "perceptron_unit",
     "neural_network_basics",
     "training_neural_networks",
     "model_generalization",
     "advanced_architectures",
     "deep_learning_complete_path" >>

TopicKeys == Range(TopicOrder)

TOPICS ==
  [key \in TopicKeys |->
     CASE key = "accounts_unit_2" ->
            << "entity_concept", "accounting_equation", "accrual", "matching" >>
       [] key = "double_aspect" ->
            << "entity_concept", "accounting_equation", "dual_aspect", "debit_credit", "t_account" >>
       [] key = "accounting_principles" ->
            << "entity_concept", "going_concern", "historical_cost", "consistency", "materiality", "accrual", "matching", "prudence" >>
       [] key = "ledger_accounts" ->
            << "entity_concept", "accounting_equation", "dual_aspect", "debit_credit", "t_account", "trial_balance" >>
       [] key = "depreciation_unit" ->
            << "entity_concept", "historical_cost", "accrual", "matching", "depreciation" >>
       [] key = "ml_foundations" ->
            << "linear_model", "gradient" >>
       [] key = "perceptron_unit" ->
            << "linear_model", "perceptron", "activation_function" >>
       [] key = "neural_network_basics" ->
            << "perceptron", "activation_function", "neuron", "neural_network", "feedforward_network" >>
       [] key = "training_neural_networks" ->
            << "loss_function", "gradient", "gradient_descent", "learning_rate", "backpropagation" >>
       [] key = "model_generalization" ->
            << "neural_network", "overfitting", "underfitting", "regularization", "dropout" >>
       [] key = "advanced_architectures" ->
            << "convolutional_neural_network", "recurrent_neural_network", "batch_normalization" >>
       [] key = "deep_learning_complete_path" ->
            << "linear_model", "perceptron", "activation_function", "neuron", "neural_network", "loss_function", "gradient", "gradient_descent", "backpropagation", "learning_rate", "overfitting", "regularization", "dropout", "batch_normalization", "convolutional_neural_network", "recurrent_neural_network" >>]

\* _CONCEPTS.get(concept_id, {}).get("depends_on", [])
\* a table with a cycle: entity_concept made to depend on accounting_equation
depends_on_cyclic(cid) ==
  IF cid = "entity_concept" THEN << "accounting_equation" >>
  ELSE IF cid \in ConceptIds THEN CONCEPTS[cid] ELSE << >>

\* _CONCEPTS.get(concept_id, {}).get("depends_on", [])
depends_on(cid) == IF cid \in ConceptIds THEN CONCEPTS[cid] ELSE << >>

(***************************************************************************)
(* user_graph.py: UserGraph.  A user graph is the record of its four       *)
(* dicts; every method is an operator from a graph (and the time read by   *)
(* time.time()) to the graph after the call.                               *)
(***************************************************************************)
\* a constructor that seeds through set_mastery, stamping the seeded concepts
NewUserGraph_stamped ==
  [ mastery |-> [cid \in {"entity_concept", "accounting_equation", "accrual", "matching"} |->
                   CASE cid = "entity_concept" -> 900000
                     [] cid = "accounting_equation" -> 700000
                     [] cid = "accrual" -> 200000
                     [] cid = "matching" -> 100000],
    last_updated |-> [cid \in {"entity_concept", "accounting_equation", "accrual", "matching"} |-> 0],
    exposure_count |-> EmptyDict,
    confusion_count |-> EmptyDict ]

\* UserGraph.__init__
NewUserGraph ==
  [ mastery |-> [cid \in {"entity_concept", "accounting_equation", "accrual", "matching"} |->
                   CASE cid = "entity_concept" -> 900000
                     [] cid = "accounting_equation" -> 700000
                     [] cid = "accrual" -> 200000
                     [] cid = "matching" -> 100000],
    last_updated |-> EmptyDict,
    exposure_count |-> EmptyDict,
    confusion_count |-> EmptyDict ]

\* set_mastery with the lower clamp forgotten: min(1.0, level)
set_mastery_no_floor(ug, concept_id, level, now) ==
  [ug EXCEPT !.mastery = DictPut(ug.mastery, concept_id, Min(Unit, level)),
             !.last_updated = DictPut(ug.last_updated, concept_id, now)]

\* set_mastery as a fresh start: the concept's confusion_count is cleared
set_mastery_fresh_start(ug, concept_id, level, now) ==
  [ug EXCEPT !.mastery = DictPut(ug.mastery, concept_id, Max(0, Min(Unit, level))),
             !.confusion_count = DictPut(ug.confusion_count, concept_id, 0),
             !.last_updated = DictPut(ug.last_updated, concept_id, now)]

set_mastery(ug, concept_id, level, now) ==
  [ug EXCEPT !.mastery = DictPut(ug.mastery, concept_id, Max(0, Min(Unit, level))),
             !.last_updated = DictPut(ug.last_updated, concept_id, now)]

get_mastery(ug, concept_id) == DictGet(ug.mastery, concept_id, 0)

\* get_effective_mastery with the floor forgotten: raw - penalty
get_effective_mastery_no_floor(ug, concept_id) ==
  get_mastery(ug, concept_id)
    - CONFUSION_PENALTY_PER_COUNT * DictGet(ug.confusion_count, concept_id, 0)

get_effective_mastery(ug, concept_id) ==
  LET raw == get_mastery(ug, concept_id)
      penalty == CONFUSION_PENALTY_PER_COUNT * DictGet(ug.confusion_count, concept_id, 0)
  IN  Max(0, raw - penalty)

\* record_exposure that reads the raw mastery with setdefault: an entry is created
record_exposure_setdefault(ug, concept_id, now) ==
  [ug EXCEPT !.exposure_count =
                DictPut(ug.exposure_count, concept_id, DictGet(ug.exposure_count, concept_id, 0) + 1),
             !.mastery = DictPut(ug.mastery, concept_id, DictGet(ug.mastery, concept_id, 0)),
             !.last_updated = DictPut(ug.last_updated, concept_id, now)]

record_exposure(ug, concept_id, now) ==
  [ug EXCEPT !.exposure_count =
                DictPut(ug.exposure_count, concept_id, DictGet(ug.exposure_count, concept_id, 0) + 1),
             !.last_updated = DictPut(ug.last_updated, concept_id, now)]

\* record_confusion with the floor forgotten: current - 0.1
record_confusion_no_floor(ug, concept_id, now) ==
  LET current == DictGet(ug.mastery, concept_id, 0)
  IN  [ug EXCEPT !.confusion_count =
                    DictPut(ug.confusion_count, concept_id, DictGet(ug.confusion_count, concept_id, 0) + 1),
                 !.mastery = DictPut(ug.mastery, concept_id, current - CONFUSION_PENALTY_PER_COUNT),
                 !.last_updated = DictPut(ug.last_updated, concept_id, now)]

\* record_confusion that only counts: the raw mastery is left as it was
record_confusion_count_only(ug, concept_id, now) ==
  [ug EXCEPT !.confusion_count =
                DictPut(ug.confusion_count, concept_id, DictGet(ug.confusion_count, concept_id, 0) + 1),
             !.mastery = DictPut(ug.mastery, concept_id, DictGet(ug.mastery, concept_id, 0)),
             !.last_updated = DictPut(ug.last_updated, concept_id, now)]

record_confusion(ug, concept_id, now) ==
  LET current == DictGet(ug.mastery, concept_id, 0)
  IN  [ug EXCEPT !.confusion_count =
                    DictPut(ug.confusion_count, concept_id, DictGet(ug.confusion_count, concept_id, 0) + 1),
                 !.mastery = DictPut(ug.mastery, concept_id, Max(0, current - CONFUSION_PENALTY_PER_COUNT)),
                 !.last_updated = DictPut(ug.last_updated, concept_id, now)]

\* record_correct_answer that forgives: the concept's confusion_count is reset
record_correct_answer_forgiving(ug, concept_id, now) ==
  LET current == DictGet(ug.mastery, concept_id, 0)
  IN  [ug EXCEPT !.mastery = DictPut(ug.mastery, concept_id, Min(Unit, current + CORRECT_ANSWER_BOOST)),
                 !.confusion_count = DictPut(ug.confusion_count, concept_id, 0),
                 !.last_updated = DictPut(ug.last_updated, concept_id, now)]

record_correct_answer(ug, concept_id, now) ==
  LET current == DictGet(ug.mastery, concept_id, 0)
  IN  [ug EXCEPT !.mastery = DictPut(ug.mastery, concept_id, Min(Unit, current + CORRECT_ANSWER_BOOST)),
                 !.last_updated = DictPut(ug.last_updated, concept_id, now)]

\* apply_decay without the guard: a concept never touched counts from time 0
apply_decay_unguarded(ug, concept_id, now) ==
  LET elapsed == now - DictGet(ug.last_updated, concept_id, 0)
      decay == DECAY_RATE_PER_SECOND * elapsed
      current == DictGet(ug.mastery, concept_id, 0)
  IN  [ug EXCEPT !.mastery = DictPut(ug.mastery, concept_id, Max(0, current - decay))]

apply_decay(ug, concept_id, now) ==
  IF concept_id \notin DOMAIN ug.last_updated
  THEN ug
  ELSE LET elapsed == now - ug.last_updated[concept_id]
           decay == DECAY_RATE_PER_SECOND * elapsed
           current == DictGet(ug.mastery, concept_id, 0)
       IN  [ug EXCEPT !.mastery = DictPut(ug.mastery, concept_id, Max(0, current - decay))]

\* filter_unknown on the raw mastery, the confusion penalty left out
filter_unknown_by_raw(ug, concept_list, threshold) ==
  SelectSeq(concept_list, LAMBDA c : get_mastery(ug, c) < threshold)

\* [c for c in concept_list if self.get_effective_mastery(c) < threshold]
filter_unknown(ug, concept_list, threshold) ==
  SelectSeq(concept_list, LAMBDA c : get_effective_mastery(ug, c) < threshold)

mastery_snapshot(ug, concept_ids) ==
  [cid \in Range(concept_ids) |-> get_effective_mastery(ug, cid)]

\* a read that enters the default into the dicts it reads (setdefault)
AfterRead_setdefault(ug, concept_id) ==
  [ug EXCEPT !.mastery = IF concept_id \in DOMAIN @ THEN @ ELSE DictPut(@, concept_id, 0),
             !.confusion_count = IF concept_id \in DOMAIN @ THEN @ ELSE DictPut(@, concept_id, 0)]

\* the graph after get_effective_mastery(concept_id): self.mastery.get and
\* self.confusion_count.get return the default without storing it
AfterRead(ug, concept_id) == ug
\* the graph after get_effective_mastery on each of concept_ids in turn
RECURSIVE AfterReads(_, _)
AfterReads(ug, concept_ids) ==
  IF concept_ids = << >> THEN ug
  ELSE AfterReads(AfterRead(ug, Head(concept_ids)), Tail(concept_ids))

(***************************************************************************)
(* app.py: user ids are strings, modelled as sequences of characters.      *)
(***************************************************************************)
Whitespace == {" ", "\t", "\n"}
RECURSIVE lstrip(_)
lstrip(s) == IF s # << >> /\ Head(s) \in Whitespace THEN lstrip(Tail(s)) ELSE s
RECURSIVE rstrip(_)
rstrip(s) ==
  IF s # << >> /\ s[Len(s)] \in Whitespace THEN rstrip(SubSeq(s, 1, Len(s) - 1)) ELSE s
\* str.strip()
strip(s) == rstrip(lstrip(s))
DefaultUser == << "d", "e", "f", "a", "u", "l", "t" >>
\* the id taken as the key untrimmed: user_id or "default"
NormalizeUserId_no_strip(user_id) == IF user_id = << >> THEN DefaultUser ELSE user_id

\* uid = user_id.strip() or "default"
NormalizeUserId(user_id) == IF strip(user_id) = << >> THEN DefaultUser ELSE strip(user_id)

\* _apply_user_mastery returning at once: no override is applied
apply_user_mastery_skipped(ug, user_mastery, now) == ug


\* _apply_user_mastery; user_mastery is the dict's items in order, << >> for
\* None and for the empty dict
RECURSIVE apply_user_mastery(_, _, _)
apply_user_mastery(ug, user_mastery, now) ==
  IF user_mastery = << >> THEN ug
  ELSE apply_user_mastery(set_mastery(ug, Head(user_mastery)[1], Head(user_mastery)[2], now),
                          Tail(user_mastery), now)

(***************************************************************************)
(* basic_graph.py: depth, ordering, prerequisite closure                   *)
(***************************************************************************)
\* sorted(ids, key=...): ascending in the key, elements of equal key in their
\* order in ids (Python's sort is stable).  key is a function on the ids.
\* The positions of ids are sorted by key and then position, a total order.
\* a sort that puts elements of equal key in the reverse of their order in ids
StableSort_ties_reversed(ids, key) ==
  LET Before(i, j) == key[ids[i]] < key[ids[j]] \/ (key[ids[i]] = key[ids[j]] /\ i > j)
      order == SortSeq([i \in DOMAIN ids |-> i], Before)
  IN  [p \in DOMAIN ids |-> ids[order[p]]]

StableSort(ids, key) ==
  LET Before(i, j) == key[ids[i]] < key[ids[j]] \/ (key[ids[i]] = key[ids[j]] /\ i < j)
      order == SortSeq([i \in DOMAIN ids |-> i], Before)
  IN  [p \in DOMAIN ids |-> ids[order[p]]]

\* the depth of the first prerequisite taken for the maximum
MaxDepth_first_only(cache, deps, i) == cache[deps[i]]

\* max(_compute_depth(d) for d in deps[i..]), read from the cache the calls filled
RECURSIVE MaxDepth(_, _, _)
MaxDepth(cache, deps, i) ==
  IF i = Len(deps) THEN cache[deps[i]] ELSE Max(cache[deps[i]], MaxDepth(cache, deps, i + 1))

\* _compute_depth with the module-level _DEPTH_CACHE: the value is the cache
\* after the call, in which concept_id is bound to the depth returned.  The
\* recursion is kept on an explicit stack of the concept ids whose call is
\* pending: a concept found in the cache returns at once; a concept with a
\* prerequisite outside the cache has the calls for its prerequisites made
\* first, in their order; a concept whose prerequisites are all in the cache
\* is stored with 0, or 1 + the maximum of their depths.
RECURSIVE ComputeDepths(_, _)
ComputeDepths(cache, pending) ==
  IF pending = << >> THEN cache
  ELSE IF Head(pending) \in DOMAIN cache THEN ComputeDepths(cache, Tail(pending))
  ELSE IF \E d \in Range(depends_on(Head(pending))) : d \notin DOMAIN cache
  THEN ComputeDepths(cache, depends_on(Head(pending)) \o pending)
  ELSE ComputeDepths(
         DictPut(cache, Head(pending),
                 IF depends_on(Head(pending)) = << >> THEN 0
                 ELSE 1 + MaxDepth(cache, depends_on(Head(pending)), 1)),
         Tail(pending))
compute_depth(cache, concept_id) == ComputeDepths(cache, << concept_id >>)

\* sort_by_depth with reverse=True: advanced concepts first
sort_by_depth_descending(cache, concept_ids) ==
  LET sorted(after) ==
        [ids |-> StableSort(concept_ids, [c \in DOMAIN after |-> 0 - after[c]]), cache |-> after]
  IN  Strict(sorted, ComputeDepths(cache, concept_ids))

\* BasicGraph.sort_by_depth: the sorted list and the cache after the call
sort_by_depth(cache, concept_ids) ==
  LET sorted(after) == [ids |-> StableSort(concept_ids, after), cache |-> after]
  IN  Strict(sorted, ComputeDepths(cache, concept_ids))

\* _collect_prerequisites: the visited set after the call.  The recursion is
\* kept on an explicit stack of the concept ids still to be visited, in the
\* order the recursive calls would be made.
RECURSIVE CollectAll(_, _)
CollectAll(pending, visited) ==
  IF pending = << >> THEN visited
  ELSE IF Head(pending) \in visited THEN CollectAll(Tail(pending), visited)
  ELSE CollectAll(depends_on(Head(pending)) \o Tail(pending), visited \cup {Head(pending)})
collect_prerequisites(concept_id, visited) == CollectAll(<< concept_id >>, visited)

\* Iteration order of a Python set of str: it follows the strings' hashes,
\* which are salted per process (PYTHONHASHSEED).  seed is the process's salt;
\* the hash is modelled as a multiplicative hash of the table index.
HashSeeds == {1, 36}
HashOf(cid, seed) == (IndexOf(ConceptOrder, cid) * seed) % 37
\* list(visited)
SetIterationOrder(S, seed) ==
  StableSort(SelectSeq(ConceptOrder, LAMBDA c : c \in S), [c \in S |-> HashOf(c, seed)])

\* get_all_prerequisites without visited.discard(concept_id)
get_all_prerequisites_keep_self(cache, seed, concept_id) ==
  sort_by_depth(cache, SetIterationOrder(collect_prerequisites(concept_id, {}), seed))

\* BasicGraph.get_all_prerequisites (concept_id is a key of the table)
get_all_prerequisites(cache, seed, concept_id) ==
  LET visited == collect_prerequisites(concept_id, {}) \ {concept_id}
  IN  sort_by_depth(cache, SetIterationOrder(visited, seed))

\* BasicGraph.get_topic_concepts, for a name that is a key of the topic table
get_topic_concepts(topic_name) == TOPICS[topic_name]

(***************************************************************************)
(* basic_graph.py: topic names.  A name is a sequence of characters; the   *)
(* keys of the tables are written as strings and read character by         *)
(* character where the code compares them with a name.                     *)
(***************************************************************************)
Chars(str) == [i \in 1..Len(str) |-> SubSeq(str, i, i)]
Lowercase == Chars("abcdefghijklmnopqrstuvwxyz")
Uppercase == Chars("ABCDEFGHIJKLMNOPQRSTUVWXYZ")
Digits == Chars("0123456789")
\* the characters in the order of their code points
CodePoints == Chars(" !") \o Digits \o Uppercase \o Chars("_") \o Lowercase
ord(c) == IndexOf(CodePoints, c)
\* str.lower()
lower(s) ==
  [i \in DOMAIN s |->
     IF s[i] \in Range(Uppercase) THEN Lowercase[IndexOf(Uppercase, s[i])] ELSE s[i]]
IsAlnum(c) == c \in Range(Lowercase) \cup Range(Digits)
\* re.sub(r"[^a-z0-9]+", " ", s): every maximal run of other characters
\* becomes one space
RECURSIVE sub_non_alnum(_)
sub_non_alnum(s) ==
  IF s = << >> THEN << >>
  ELSE IF IsAlnum(Head(s)) THEN << Head(s) >> \o sub_non_alnum(Tail(s))
  ELSE IF Len(s) > 1 /\ ~IsAlnum(s[2]) THEN sub_non_alnum(Tail(s))
  ELSE << " " >> \o sub_non_alnum(Tail(s))
\* str.split(sep) for a one-character sep: the pieces between the separators,
\* empty pieces included
RECURSIVE split(_, _)
split(s, sep) ==
  IF sep \notin Range(s) THEN << s >>
  ELSE LET i == CHOOSE k \in DOMAIN s : s[k] = sep /\ \A j \in 1..(k - 1) : s[j] # sep
       IN  << SubSeq(s, 1, i - 1) >> \o split(SubSeq(s, i + 1, Len(s)), sep)
NonEmpty(pieces) == SelectSeq(pieces, LAMBDA t : t # << >>)
\* str.split(): the words between runs of whitespace
split_whitespace(s) == NonEmpty(split(s, " "))
\* sep.join(tokens)
RECURSIVE join(_, _)
join(tokens, sep) ==
  IF tokens = << >> THEN << >>
  ELSE IF Len(tokens) = 1 THEN tokens[1]
  ELSE tokens[1] \o sep \o join(Tail(tokens), sep)
\* str.replace("_", "")
remove_underscores(s) == SelectSeq(s, LAMBDA c : c # "_")
\* str.startswith
startswith(s, prefix) == Len(prefix) <= Len(s) /\ SubSeq(s, 1, Len(prefix)) = prefix
\* a < b for str
RECURSIVE StrLess(_, _)
StrLess(a, b) ==
  IF b = << >> THEN FALSE
  ELSE IF a = << >> THEN TRUE
  ELSE IF Head(a) # Head(b) THEN ord(Head(a)) < ord(Head(b))
  ELSE StrLess(Tail(a), Tail(b))

STOP_WORDS ==
  { Chars("a"), Chars("about"), Chars("an"), Chars("explain"), Chars("learn"), Chars("me"),
    Chars("please"), Chars("teach"), Chars("the") }

\* _normalize_topic_name with every token kept
normalize_topic_name_keep_stop_words(topic_name) ==
  LET cleaned == strip(sub_non_alnum(lower(topic_name)))
  IN  IF cleaned = << >> THEN << >> ELSE join(split_whitespace(cleaned), Chars("_"))

\* _normalize_topic_name
normalize_topic_name(topic_name) ==
  LET cleaned == strip(sub_non_alnum(lower(topic_name)))
      tokens == SelectSeq(split_whitespace(cleaned), LAMBDA t : t \notin STOP_WORDS)
  IN  IF cleaned = << >> THEN << >>
      ELSE join(IF tokens = << >> THEN split_whitespace(cleaned) ELSE tokens, Chars("_"))

\* the least position of a non-empty set of positions, 0 for the empty set
First(S) == IF S = {} THEN 0 ELSE CHOOSE i \in S : \A j \in S : i <= j
TopicIndexes == DOMAIN TopicOrder
ConceptIndexes == DOMAIN ConceptOrder
\* the keys of _TOPICS and of _CONCEPTS, and key.split("_"), by position
TopicKeyChars == [i \in TopicIndexes |-> Chars(TopicOrder[i])]
TopicKeyTokens == [i \in TopicIndexes |-> split(TopicKeyChars[i], "_")]
ConceptIdChars == [c \in ConceptIndexes |-> Chars(ConceptOrder[c])]

\* topic_name in _TOPICS: the position of the key, 0 if there is none
ExactKey(topic_name) == First({i \in TopicIndexes : TopicKeyChars[i] = topic_name})

\* for key in _TOPICS: if key.replace("_", "") == normalized_no_underscore
UnderscoreInsensitiveKey(normalized_no_underscore) ==
  First({i \in TopicIndexes :
           remove_underscores(TopicKeyChars[i]) = normalized_no_underscore})

\* token.startswith(key_token) or key_token.startswith(token), for some token of key
TokenMatchesKey(token, i) ==
  \E key_token \in Range(TopicKeyTokens[i]) :
    startswith(token, key_token) \/ startswith(key_token, token)
KeysMatching(token) == {i \in TopicIndexes : TokenMatchesKey(token, i)}

\* the first key in table order that any of the tokens matches
TokenPrefixKey_keys_first(tokens) ==
  First(UNION {KeysMatching(tokens[t]) : t \in DOMAIN tokens})

\* for token in tokens: for key in _TOPICS: for key_token in key.split("_"):
\* the first key, in table order, that the first token with a match matches
TokenPrefixKey(tokens) ==
  LET t == First({k \in DOMAIN tokens : KeysMatching(tokens[k]) # {}})
  IN  IF t = 0 THEN 0 ELSE First(KeysMatching(tokens[t]))

\* for key, concept_list in _TOPICS.items(): if concept_id in concept_list
KeysContaining ==
  [c \in ConceptIndexes |-> {i \in TopicIndexes : ConceptOrder[c] \in Range(TOPICS[TopicOrder[i]])}]
\* token.startswith(concept_id) or concept_id.startswith(token), for a concept
\* that some topic contains
ConceptsMatching(token) ==
  { c \in ConceptIndexes :
      /\ startswith(token, ConceptIdChars[c]) \/ startswith(ConceptIdChars[c], token)
      /\ KeysContaining[c] # {} }

\* the concept-name fallback left out
ConceptNameKey_never(tokens) == 0

\* for token in tokens: for concept_id in _CONCEPTS: the first topic, in table
\* order, containing the first concept the first token with a match matches
ConceptNameKey(tokens) ==
  LET t == First({k \in DOMAIN tokens : ConceptsMatching(tokens[k]) # {}})
  IN  IF t = 0 THEN 0
      ELSE First(KeysContaining[First(ConceptsMatching(tokens[t]))])

\* the strategy (1 to 5) under which get_topic_concepts finds a key for
\* topic_name and the position of that key in the table; strategy 0 and
\* position 0 when it finds none
FindTopicKey(topic_name) ==
  LET normalized == normalize_topic_name(topic_name)
      tokens == NonEmpty(split(normalized, "_"))
  IN  IF ExactKey(topic_name) # 0 THEN [strategy |-> 1, index |-> ExactKey(topic_name)]
      ELSE IF ExactKey(normalized) # 0 THEN [strategy |-> 2, index |-> ExactKey(normalized)]
      ELSE IF UnderscoreInsensitiveKey(remove_underscores(normalized)) # 0
      THEN [strategy |-> 3, index |-> UnderscoreInsensitiveKey(remove_underscores(normalized))]
      ELSE IF TokenPrefixKey(tokens) # 0 THEN [strategy |-> 4, index |-> TokenPrefixKey(tokens)]
      ELSE IF ConceptNameKey(tokens) # 0 THEN [strategy |-> 5, index |-> ConceptNameKey(tokens)]
      ELSE [strategy |-> 0, index |-> 0]

\* sorted(_TOPICS)
SortedTopicKeys == SortSeq(TopicOrder, LAMBDA a, b : StrLess(Chars(a), Chars(b)))
\* KeyError(f"Unknown topic: '{topic_name}'. Available topics: {available}")
UnknownTopic(topic_name) ==
  [class |-> "KeyError", topic_name |-> topic_name, available |-> SortedTopicKeys]

(***************************************************************************)
(* plan_builder.py.  A concept node is its id and the number of examples   *)
(* kept; title, description and depends_on are copied from the table.      *)
(***************************************************************************)
\* _trim_concept
trim_concept(cid, effective_mastery) ==
  [id |-> cid, example_count |-> IF effective_mastery < EXAMPLE_MASTERY_CUTOFF THEN 2 ELSE 1]

Ids(nodes) == [i \in DOMAIN nodes |-> nodes[i].id]

\* the cap with the whole budget given to each list: strong_prereqs[:budget]
ApplyNodeCap_budget_each(weak_nodes, strong_nodes) ==
  LET budget == MAX_CONCEPT_NODES - 1
  IN  [weak |-> Take(weak_nodes, budget), strong |-> Take(strong_nodes, budget)]

\* the cap with the strong prerequisites served first
ApplyNodeCap_strong_first(weak_nodes, strong_nodes) ==
  LET budget == MAX_CONCEPT_NODES - 1
      strong_prereqs == Take(strong_nodes, budget)
      remaining == budget - Len(strong_prereqs)
  IN  [weak |-> Take(weak_nodes, remaining), strong |-> strong_prereqs]

\* budget = MAX_CONCEPT_NODES - 1; weak_prereqs[:budget]; strong_prereqs[:remaining]
ApplyNodeCap(weak_nodes, strong_nodes) ==
  LET budget == MAX_CONCEPT_NODES - 1
      weak_prereqs == Take(weak_nodes, budget)
      remaining == budget - Len(weak_prereqs)
  IN  [weak |-> weak_prereqs, strong |-> Take(strong_nodes, remaining)]

\* all_prereqs is the local of that name, kept in the record for reference
build_teaching_bundle(target_concept, cache, seed, ug) ==
  LET all_prereqs == get_all_prerequisites(cache, seed, target_concept).ids
      target_mastery == get_effective_mastery(ug, target_concept)
      node(cid) == trim_concept(cid, get_effective_mastery(ug, cid))
      weak_all == SelectSeq(all_prereqs, LAMBDA cid : get_effective_mastery(ug, cid) < MASTERY_THRESHOLD)
      strong_all == SelectSeq(all_prereqs, LAMBDA cid : ~(get_effective_mastery(ug, cid) < MASTERY_THRESHOLD))
      weak_nodes == [i \in DOMAIN weak_all |-> node(weak_all[i])]
      strong_nodes == [i \in DOMAIN strong_all |-> node(strong_all[i])]
      kept == ApplyNodeCap(weak_nodes, strong_nodes)
  IN  [ all_prereqs |-> all_prereqs,
        target |-> [id |-> target_concept,
                    example_count |-> IF target_mastery < EXAMPLE_MASTERY_CUTOFF THEN 2 ELSE 1],
        weak_prerequisites |-> kept.weak,
        strong_prerequisites |-> kept.strong,
        student_mastery_snapshot |-> mastery_snapshot(ug, Append(all_prereqs, target_concept)) ]

\* _DEPTH_CACHE after build_teaching_bundle (filled by its sort_by_depth)
CacheAfterBundle(target_concept, cache, seed) ==
  get_all_prerequisites(cache, seed, target_concept).cache

\* build_teaching_plan deciding on the raw mastery, the confusion penalty left out
build_teaching_plan_by_raw(target_concept, bundle, ug) ==
  LET target_mastery == get_mastery(ug, target_concept)
  IN  [ review_concepts |-> Ids(bundle.weak_prerequisites),
        focus_concept |-> target_concept,
        skip_reinforcement |-> Ids(bundle.strong_prerequisites),
        explanation_depth |-> IF target_mastery < 300000 THEN "high"
                              ELSE IF target_mastery <= 700000 THEN "medium"
                              ELSE "low" ]

build_teaching_plan(target_concept, bundle, ug) ==
  LET target_mastery == get_effective_mastery(ug, target_concept)
  IN  [ review_concepts |-> Ids(bundle.weak_prerequisites),
        focus_concept |-> target_concept,
        skip_reinforcement |-> Ids(bundle.strong_prerequisites),
        explanation_depth |-> IF target_mastery < 300000 THEN "high"
                              ELSE IF target_mastery <= 700000 THEN "medium"
                              ELSE "low" ]

RECURSIVE SeqSum(_)
SeqSum(s) == IF s = << >> THEN 0 ELSE Head(s) + SeqSum(Tail(s))

\* round(num / den, 3) of a value in 1e-6 units: the nearest multiple of 1000,
\* an exact tie going to the even neighbour.
Round3(num, den) ==
  LET d == den * 1000
      q == num \div d
      r == num % d
  IN  1000 * (IF 2 * r > d THEN q + 1 ELSE IF 2 * r = d THEN q + (q % 2) ELSE q)

\* calibrate_confidence without the ceiling
ApplyWeakCap_none(bundle, num, den) == num

\* if bundle["weak_prerequisites"]: raw_confidence = min(raw_confidence, 0.5),
\* on the fraction num/den
ApplyWeakCap(bundle, num, den) ==
  IF bundle.weak_prerequisites # << >>
  THEN Min(num, WEAK_PREREQ_CONFIDENCE_CAP * den) ELSE num

\* The weights 0.5, 0.35, 0.15 are 10/20, 7/20, 3/20: raw_confidence is the
\* exact fraction num/den of the source's expression.
calibrate_confidence(target_concept, bundle, ug) ==
  LET snapshot == bundle.student_mastery_snapshot
      all_prereq_ids == Ids(bundle.weak_prerequisites) \o Ids(bundle.strong_prerequisites)
      n_total == Len(all_prereq_ids)
      n_strong == Len(bundle.strong_prerequisites)
      total == SeqSum([i \in DOMAIN all_prereq_ids |-> DictGet(snapshot, all_prereq_ids[i], 0)])
      nodes == Min(MAX_CONCEPT_NODES, n_total + 1)
      den == 20 * n_total * MAX_CONCEPT_NODES
      num == 10 * total * MAX_CONCEPT_NODES
               + 7 * Unit * n_strong * MAX_CONCEPT_NODES
               + 3 * Unit * nodes * n_total
      capped == ApplyWeakCap(bundle, num, den)
      clamped == Max(0, Min(Unit * den, capped))
  IN  IF all_prereq_ids = << >> THEN Unit ELSE Round3(clamped, den)

\* _DEPTH_CACHE before each iteration of the loop of build_structured_plan
\* over ids, and after the last one
RECURSIVE CachesInLoop(_, _, _)
CachesInLoop(ids, cache, seed) ==
  IF ids = << >> THEN << cache >>
  ELSE << cache >> \o CachesInLoop(Tail(ids), CacheAfterBundle(Head(ids), cache, seed), seed)

\* the body of the loop of build_structured_plan, for one concept id
PlanEntry(concept_id, cache, seed, ug) ==
  LET bundle == build_teaching_bundle(concept_id, cache, seed, ug)
  IN  [ id |-> bundle.target.id,
        example_count |-> bundle.target.example_count,
        teaching_plan |-> build_teaching_plan(concept_id, bundle, ug),
        confidence |-> calibrate_confidence(concept_id, bundle, ug),
        weak_prerequisites |-> bundle.weak_prerequisites ]

\* the concepts whose mastery build_teaching_bundle, build_teaching_plan and
\* calibrate_confidence read: the prerequisites and the target
BundleReads(bundle) == Append(bundle.all_prereqs, bundle.target.id)
\* the concepts whose mastery build_structured_plan reads: the topic's
\* concepts (filter_unknown), then those of each bundle
PlanReads(topic, ug) ==
  LET concept_ids == get_topic_concepts(topic)
      unknown_ids == filter_unknown(ug, concept_ids, 600000)
      in_bundles == UNION {collect_prerequisites(cid, {}) : cid \in Range(unknown_ids)}
  IN  concept_ids \o SelectSeq(ConceptOrder, LAMBDA c : c \in in_bundles)

\* the plan, and _DEPTH_CACHE after the call
build_structured_plan(topic, cache, seed, ug) ==
  LET concept_ids == get_topic_concepts(topic)
      unknown_ids == filter_unknown(ug, concept_ids, 600000)
      ordered == sort_by_depth(cache, unknown_ids)
      ordered_ids == ordered.ids
      caches == CachesInLoop(ordered_ids, ordered.cache, seed)
  IN  [ topic |-> topic,
        concept_sequence |->
          [i \in DOMAIN ordered_ids |-> PlanEntry(ordered_ids[i], caches[i], seed, ug)],
        cache |-> caches[Len(ordered_ids) + 1] ]

(***************************************************************************)
(* generator.py: SceneSpecGenerator.post_interaction_update.  The          *)
(* generator's user_graph is a graph or None.                              *)
(***************************************************************************)
\* post_interaction_update with elif: a misunderstanding is counted only
\* when the answer was correct
post_interaction_update_elif(ug, concept_id, correct, misunderstanding_detected, now) ==
  IF correct
  THEN IF misunderstanding_detected
       THEN record_confusion(record_correct_answer(ug, concept_id, now), concept_id, now)
       ELSE record_correct_answer(ug, concept_id, now)
  ELSE record_confusion(ug, concept_id, now)

post_interaction_update(ug, concept_id, correct, misunderstanding_detected, now) ==
  LET answered == IF correct THEN record_correct_answer(ug, concept_id, now)
                  ELSE record_confusion(ug, concept_id, now)
  IN  IF misunderstanding_detected THEN record_confusion(answered, concept_id, now)
      ELSE answered

(***************************************************************************)
(* State                                                                   *)
(***************************************************************************)
VARIABLES
  user_graphs,    \* app.py _user_graphs: normalized user id -> UserGraph
  depth_cache,    \* basic_graph.py _DEPTH_CACHE: concept id -> depth
  clock,          \* the value time.time() returns, in seconds
  hash_seed,      \* the process's string-hash salt
  ret,            \* the value the last call returned, with the call it answers
  confusion_run,  \* history: the current run of record_confusion calls on one
                  \* concept that began with confusion_count 0: [user, cid, r0, k]
  requests        \* the /generate requests received, in order of arrival: each
                  \* with its inputs, its position in the handler and its plan

vars == << user_graphs, depth_cache, clock, hash_seed, ret, confusion_run, requests >>

NoUser == << >>
NoRun == [user |-> NoUser, cid |-> "", r0 |-> 0, k |-> 0]
\* a call that returns None
None == [op |-> "none"]
\* the value of a call op(arg) on user's graph
Return(op, user, arg, value) == [op |-> op, user |-> user, arg |-> arg, value |-> value]
\* a call op(arg) that raised an exception of class error
Raise(op, user, arg, error) == [op |-> op, user |-> user, arg |-> arg, error |-> error]

Init ==
  /\ user_graphs = EmptyDict
  /\ depth_cache = EmptyDict
  /\ clock = 0
  /\ hash_seed \in HashSeeds
  /\ ret = None
  /\ confusion_run = NoRun
  /\ requests = << >>

Users == DOMAIN user_graphs

\* the run of record_confusion calls after one more call on (u, cid)
RunAfterConfusion(u, cid) ==
  IF confusion_run.user = u /\ confusion_run.cid = cid /\ confusion_run.k > 0
  THEN [confusion_run EXCEPT !.k = @ + 1]
  ELSE IF DictGet(user_graphs[u].confusion_count, cid, 0) = 0
  THEN [user |-> u, cid |-> cid, r0 |-> get_mastery(user_graphs[u], cid), k |-> 1]
  ELSE NoRun
\* the run after another call that writes the mastery of (u, cid)
RunAfterWrite(u, cid) ==
  IF confusion_run.user = u /\ confusion_run.cid = cid THEN NoRun ELSE confusion_run

(***************************************************************************)
(* Operations.  Each is the whole call; the history variable confusion_run *)
(* is written by the steps of the specifications below.                    *)
(***************************************************************************)
\* app.py _get_user_graph
GetUserGraph(user_id) ==
  LET uid == NormalizeUserId(user_id)
  IN  /\ user_graphs' = IF uid \in Users THEN user_graphs
                        ELSE DictPut(user_graphs, uid, NewUserGraph)
      /\ ret' = Return("_get_user_graph", uid, user_id, uid)
      /\ UNCHANGED << depth_cache, clock, hash_seed >>

SetMastery(u, cid, level) ==
  /\ u \in Users
  /\ user_graphs' = [user_graphs EXCEPT ![u] = set_mastery(@, cid, level, clock)]
  /\ ret' = None
  /\ UNCHANGED << depth_cache, clock, hash_seed >>

RecordExposure(u, cid) ==
  /\ u \in Users
  /\ user_graphs' = [user_graphs EXCEPT ![u] = record_exposure(@, cid, clock)]
  /\ ret' = None
  /\ UNCHANGED << depth_cache, clock, hash_seed >>

RecordConfusion(u, cid) ==
  /\ u \in Users
  /\ user_graphs' = [user_graphs EXCEPT ![u] = record_confusion(@, cid, clock)]
  /\ ret' = None
  /\ UNCHANGED << depth_cache, clock, hash_seed >>

RecordCorrectAnswer(u, cid) ==
  /\ u \in Users
  /\ user_graphs' = [user_graphs EXCEPT ![u] = record_correct_answer(@, cid, clock)]
  /\ ret' = None
  /\ UNCHANGED << depth_cache, clock, hash_seed >>

ApplyDecay(u, cid) ==
  /\ u \in Users
  /\ user_graphs' = [user_graphs EXCEPT ![u] = apply_decay(@, cid, clock)]
  /\ ret' = None
  /\ UNCHANGED << depth_cache, clock, hash_seed >>

\* time passes
Tick(dt) ==
  /\ clock' = clock + dt
  /\ UNCHANGED << user_graphs, depth_cache, hash_seed, ret >>

\* BasicGraph.compute_depth
ComputeDepth(cid) ==
  /\ depth_cache' = compute_depth(depth_cache, cid)
  /\ ret' = Return("compute_depth", NoUser, cid, depth_cache'[cid])
  /\ UNCHANGED << user_graphs, clock, hash_seed >>

\* BasicGraph.sort_by_depth
SortByDepth(concept_ids) ==
  /\ depth_cache' = sort_by_depth(depth_cache, concept_ids).cache
  /\ ret' = Return("sort_by_depth", NoUser, concept_ids,
                   sort_by_depth(depth_cache, concept_ids).ids)
  /\ UNCHANGED << user_graphs, clock, hash_seed >>

\* BasicGraph.get_all_prerequisites: KeyError for an id outside the table
GetAllPrerequisites(concept_id) ==
  /\ IF concept_id \notin ConceptIds
     THEN /\ ret' = Raise("get_all_prerequisites", NoUser, concept_id, "KeyError")
          /\ UNCHANGED depth_cache
     ELSE /\ depth_cache' = get_all_prerequisites(depth_cache, hash_seed, concept_id).cache
          /\ ret' = Return("get_all_prerequisites", NoUser, concept_id,
                           get_all_prerequisites(depth_cache, hash_seed, concept_id).ids)
  /\ UNCHANGED << user_graphs, clock, hash_seed >>

\* BasicGraph.get_topic_concepts for any name: the list of the key found,
\* KeyError when no strategy finds one
GetTopicConcepts(topic_name) ==
  /\ LET found == FindTopicKey(topic_name)
     IN  ret' = IF found.index = 0
                THEN Raise("get_topic_concepts", NoUser, topic_name, UnknownTopic(topic_name))
                ELSE Return("get_topic_concepts", NoUser, topic_name,
                            get_topic_concepts(TopicOrder[found.index]))
  /\ UNCHANGED << user_graphs, depth_cache, clock, hash_seed >>

\* build_teaching_bundle, then build_teaching_plan and calibrate_confidence
\* on the bundle, as the loop body of build_structured_plan calls them
BuildTeachingBundle(u, target) ==
  /\ u \in Users
  /\ LET bundle == build_teaching_bundle(target, depth_cache, hash_seed, user_graphs[u])
     IN  /\ depth_cache' = CacheAfterBundle(target, depth_cache, hash_seed)
         /\ ret' = Return("build_teaching_bundle", u, target,
                          [ bundle |-> bundle,
                            teaching_plan |-> build_teaching_plan(target, bundle, user_graphs[u]),
                            confidence |-> calibrate_confidence(target, bundle, user_graphs[u]) ])
         /\ user_graphs' = [user_graphs EXCEPT ![u] = AfterReads(@, BundleReads(bundle))]
  /\ UNCHANGED << clock, hash_seed >>

BuildStructuredPlan(u, topic) ==
  /\ u \in Users
  /\ LET plan == build_structured_plan(topic, depth_cache, hash_seed, user_graphs[u])
     IN  /\ depth_cache' = plan.cache
         /\ ret' = Return("build_structured_plan", u, topic,
                          [topic |-> plan.topic, concept_sequence |-> plan.concept_sequence])
         /\ user_graphs' = [user_graphs EXCEPT ![u] = AfterReads(@, PlanReads(topic, @))]
  /\ UNCHANGED << clock, hash_seed >>

\* the loop left after its first turn: only the first concept is recorded
RecordExposures_first_only(ug, concept_ids, now) ==
  IF concept_ids = << >> THEN ug ELSE record_exposure(ug, Head(concept_ids), now)

\* for concept in plan["concept_sequence"]: user_graph.record_exposure(concept["id"])
RECURSIVE RecordExposures(_, _, _)
RecordExposures(ug, concept_ids, now) ==
  IF concept_ids = << >> THEN ug
  ELSE RecordExposures(record_exposure(ug, Head(concept_ids), now), Tail(concept_ids), now)

\* POST /generate up to its first await: the user's graph is fetched or
\* created and user_mastery applied to it (app.py), then the plan is built
\* and exposure recorded for each of its concepts (SceneSpecGenerator.generate).
\* A topic that get_topic_concepts refuses raises KeyError after the graph
\* was fetched and written.  topic is a key of the topic table or no topic.
Generate(user_id, user_mastery, topic) ==
  LET uid == NormalizeUserId(NormalizeUserId(user_id))
      graphs == IF uid \in Users THEN user_graphs ELSE DictPut(user_graphs, uid, NewUserGraph)
      ug == apply_user_mastery(graphs[uid], user_mastery, clock)
  IN  /\ IF topic \notin TopicKeys
         THEN /\ user_graphs' = [graphs EXCEPT ![uid] = ug]
              /\ ret' = Raise("generate", uid, [user_id |-> user_id, topic |-> topic], "KeyError")
              /\ UNCHANGED depth_cache
         ELSE LET plan == build_structured_plan(topic, depth_cache, hash_seed, ug)
                  ids == Ids(plan.concept_sequence)
              IN  /\ user_graphs' =
                       [graphs EXCEPT ![uid] =
                          RecordExposures(AfterReads(ug, PlanReads(topic, ug)), ids, clock)]
                  /\ ret' = Return("generate", uid, [user_id |-> user_id, topic |-> topic], ids)
                  /\ depth_cache' = plan.cache
      /\ UNCHANGED << clock, hash_seed >>

\* POST /generate as the coroutine it is.  A request is at one of the
\* positions "start" (entering the handler), "plan" (entering
\* SceneSpecGenerator.generate), "provider" (awaiting the text-generation
\* call) and "done".  The event loop runs a coroutine from where it stands to
\* the next position at which it yields; other requests run only there.
NewRequest(user_id, user_mastery, topic) ==
  [ user_id |-> user_id, user_mastery |-> user_mastery, topic |-> topic,
    pc |-> "start", plan |-> << >>, planned_on |-> NewUserGraph, status |-> "pending" ]
RequestUser(req) == NormalizeUserId(NormalizeUserId(req.user_id))

\* the handler with an await between _apply_user_mastery and the plan
SuspensionPoints_after_overrides == {"plan", "provider"}

\* the positions at which the coroutine yields to the event loop: the awaits
\* on the provider.  await generator.generate(...) enters the coroutine
\* without yielding.
SuspensionPoints == {"provider"}

\* The provider the request names is constructed first (app.py 74); on a
\* server without that provider's API key the handler fails there, before the
\* store is touched.  The requests of the model are those of a configured server.
\* app.py 75-77 at "start"; generator.py 146-154 at "plan", where a KeyError of
\* get_topic_concepts leaves through the handler's except clause as HTTP 400;
\* at "provider" the text-generation call has ended with outcome and the
\* handler validates, saves and responds.  st is the request with the store
\* and the depth cache it runs on; planned_on keeps the graph the plan read.
Segment(st, outcome) ==
  LET req == st.req
      uid == RequestUser(req)
  IN  CASE req.pc = "start" ->
             LET graphs == IF uid \in DOMAIN st.graphs THEN st.graphs
                           ELSE DictPut(st.graphs, uid, NewUserGraph)
             IN  [ st EXCEPT !.graphs = [graphs EXCEPT ![uid] =
                                           apply_user_mastery(@, req.user_mastery, clock)],
                             !.req.pc = "plan" ]
        [] req.pc = "plan" ->
             IF req.topic \notin TopicKeys
             THEN [ st EXCEPT !.req.pc = "done", !.req.status = "bad_request" ]
             ELSE LET ug == st.graphs[uid]
                      plan == build_structured_plan(req.topic, st.cache, hash_seed, ug)
                      ids == Ids(plan.concept_sequence)
                  IN  [ st EXCEPT !.graphs[uid] =
                                     RecordExposures(AfterReads(ug, PlanReads(req.topic, ug)), ids, clock),
                                  !.cache = plan.cache,
                                  !.req.plan = ids,
                                  !.req.planned_on = ug,
                                  !.req.pc = "provider" ]
        [] req.pc = "provider" ->
             [ st EXCEPT !.req.pc = "done", !.req.status = outcome ]

\* one turn of the event loop for a request: after the segment it was given
\* has run, the segments that follow up to the next yield
RECURSIVE RunRequest(_, _)
RunRequest(after, outcome) ==
  IF after.req.pc \in SuspensionPoints \cup {"done"} THEN after
  ELSE RunRequest(Segment(after, outcome), outcome)

\* what the client of a request has received
Response(req) ==
  IF req.pc # "done" THEN None
  ELSE IF req.status \in {"bad_request", "provider_error"}
  THEN Raise("generate", RequestUser(req), [user_id |-> req.user_id, topic |-> req.topic], req.status)
  ELSE Return("generate", RequestUser(req), [user_id |-> req.user_id, topic |-> req.topic],
              [valid |-> req.status = "valid"])

\* a request arrives and runs to its first yield
GenerateReceive(user_id, user_mastery, topic) ==
  \E st \in { RunRequest(Segment([ req |-> NewRequest(user_id, user_mastery, topic),
                                    graphs |-> user_graphs, cache |-> depth_cache ],
                                  "pending"), "pending") } :
      /\ requests' = Append(requests, st.req)
      /\ user_graphs' = st.graphs
      /\ depth_cache' = st.cache
      /\ ret' = Response(st.req)
      /\ UNCHANGED << clock, hash_seed >>

\* request r is resumed: what it awaited has ended with outcome
GenerateResume(r, outcome) ==
  /\ r \in DOMAIN requests
  /\ requests[r].pc # "done"
  /\ \E st \in { RunRequest(Segment([ req |-> requests[r], graphs |-> user_graphs,
                                       cache |-> depth_cache ], outcome), outcome) } :
         /\ requests' = [requests EXCEPT ![r] = st.req]
         /\ user_graphs' = st.graphs
         /\ depth_cache' = st.cache
         /\ ret' = Response(st.req)
  /\ UNCHANGED << clock, hash_seed >>

\* SceneSpecGenerator.post_interaction_update on a generator whose user_graph
\* is u's graph, or None when u is NoUser
PostInteractionUpdate(u, concept_id, correct, misunderstanding_detected) ==
  /\ IF u = NoUser
     THEN UNCHANGED user_graphs
     ELSE /\ u \in Users
          /\ user_graphs' = [user_graphs EXCEPT ![u] =
               post_interaction_update(@, concept_id, correct, misunderstanding_detected, clock)]
  /\ ret' = Return("post_interaction_update", u,
                   [concept_id |-> concept_id, correct |-> correct,
                    misunderstanding_detected |-> misunderstanding_detected], None)
  /\ UNCHANGED << depth_cache, clock, hash_seed >>

(***************************************************************************)
(* Spec: the mastery model of one user under every UserGraph operation.    *)
(* A behaviour calls the operations with one concept id of OpIds, so that  *)
(* long runs of record_confusion stay within reach.                        *)
(***************************************************************************)
\* user ids a request may carry
RawUserIds == { << >> }
\* concept ids the operations are called with: one seeded by __init__, one not
OpIds == {"entity_concept", "dual_aspect"}
\* levels passed to set_mastery: below range, in range, above range
SetLevels == {-500000, 250000, 900000, 1500000}
\* seconds between two readings of the clock
TickSeconds == {50000}

Touched(ug, cid) ==
  cid \in (DOMAIN ug.last_updated) \cup (DOMAIN ug.exposure_count) \cup (DOMAIN ug.confusion_count)
\* no other concept id of OpIds has been used on u's graph
OneConcept(u, cid) == \A other \in OpIds \ {cid} : ~Touched(user_graphs[u], other)

GetUserGraphStep ==
  \E user_id \in RawUserIds : GetUserGraph(user_id) /\ UNCHANGED << confusion_run, requests >>
SetMasteryStep ==
  \E u \in Users, cid \in OpIds, level \in SetLevels :
    /\ OneConcept(u, cid)
    /\ SetMastery(u, cid, level)
    /\ confusion_run' = RunAfterWrite(u, cid)
    /\ UNCHANGED requests
RecordExposureStep ==
  \E u \in Users, cid \in OpIds :
    /\ OneConcept(u, cid)
    /\ DictGet(user_graphs[u].exposure_count, cid, 0) < MaxExposure
    /\ RecordExposure(u, cid)
    /\ UNCHANGED << confusion_run, requests >>
RecordConfusionStep ==
  \E u \in Users, cid \in OpIds :
    /\ OneConcept(u, cid)
    /\ DictGet(user_graphs[u].confusion_count, cid, 0) < MaxConfusion
    /\ RecordConfusion(u, cid)
    /\ confusion_run' = RunAfterConfusion(u, cid)
    /\ UNCHANGED requests
RecordCorrectAnswerStep ==
  \E u \in Users, cid \in OpIds :
    /\ OneConcept(u, cid)
    /\ RecordCorrectAnswer(u, cid)
    /\ confusion_run' = RunAfterWrite(u, cid)
    /\ UNCHANGED requests
ApplyDecayStep ==
  \E u \in Users, cid \in OpIds :
    /\ OneConcept(u, cid)
    /\ ApplyDecay(u, cid)
    /\ confusion_run' = RunAfterWrite(u, cid)
    /\ UNCHANGED requests
TickStep ==
  \E dt \in TickSeconds : clock + dt <= MaxClock /\ Tick(dt) /\ UNCHANGED << confusion_run, requests >>

Next ==
  \/ GetUserGraphStep
  \/ SetMasteryStep
  \/ RecordExposureStep
  \/ RecordConfusionStep
  \/ RecordCorrectAnswerStep
  \/ ApplyDecayStep
  \/ TickStep

Spec == Init /\ [][Next]_vars

(***************************************************************************)
(* SpecPlan: planning.  A behaviour brings one user's graph to some        *)
(* mastery state with set_mastery and record_confusion and then makes one  *)
(* planning call, for any target concept or any topic, in a process whose  *)
(* depth cache is still empty.                                             *)
(***************************************************************************)
\* set_mastery calls of a planning behaviour, on the five prerequisites of
\* trial_balance (the 5-node cap applies to them): the two that __init__
\* seeds strong can be made weak, the three it leaves at 0.0 can be made strong
PlanSetInputs ==
  { << "entity_concept", 200000 >>, << "accounting_equation", 200000 >>,
    << "dual_aspect", 800000 >>, << "debit_credit", 800000 >>, << "t_account", 800000 >> }
PlanConfusionIds == {"accounting_equation"}

Planned == ret.op \in {"build_teaching_bundle", "build_structured_plan"}

PlanGetUserGraph ==
  \E user_id \in RawUserIds : ~Planned /\ GetUserGraph(user_id) /\ UNCHANGED << confusion_run, requests >>
PlanSetMastery ==
  \E u \in Users, input \in PlanSetInputs :
    ~Planned /\ SetMastery(u, input[1], input[2]) /\ UNCHANGED << confusion_run, requests >>
PlanRecordConfusion ==
  \E u \in Users, cid \in PlanConfusionIds :
    /\ ~Planned
    /\ DictGet(user_graphs[u].confusion_count, cid, 0) < MaxPlanConfusion
    /\ RecordConfusion(u, cid)
    /\ UNCHANGED << confusion_run, requests >>
\* Planning requests.  A freshly constructed graph is planned for every
\* concept and every topic; a graph that was written to is planned for the
\* targets and topics whose prerequisites the writes are on, and for a topic
\* that the depth order rearranges.
PlanTargets == {"entity_concept", "debit_credit", "t_account", "trial_balance"}
PlanTopics == {"double_aspect", "ledger_accounts", "training_neural_networks"}
PlanBuildTeachingBundle ==
  \E u \in Users, target \in ConceptIds :
    /\ ~Planned
    /\ target \in PlanTargets \/ user_graphs[u] = NewUserGraph
    /\ BuildTeachingBundle(u, target)
    /\ UNCHANGED << confusion_run, requests >>
PlanBuildStructuredPlan ==
  \E u \in Users, topic \in TopicKeys :
    /\ ~Planned
    /\ topic \in PlanTopics \/ user_graphs[u] = NewUserGraph
    /\ BuildStructuredPlan(u, topic)
    /\ UNCHANGED << confusion_run, requests >>

NextPlan ==
  \/ PlanGetUserGraph
  \/ PlanSetMastery
  \/ PlanRecordConfusion
  \/ PlanBuildTeachingBundle
  \/ PlanBuildStructuredPlan

SpecPlan == Init /\ [][NextPlan]_vars

(***************************************************************************)
(* SpecDepth: depth requests in every order.  Depth is requested for the   *)
(* accounting concepts one at a time and for gradient_descent (two         *)
(* prerequisites of unequal depth, at the end of a chain of five), and the *)
(* accounting topics' lists are sorted.                                    *)
(***************************************************************************)
DepthIds ==
  { "entity_concept", "accounting_equation", "dual_aspect", "debit_credit", "t_account",
    "accrual", "matching", "going_concern", "historical_cost", "prudence", "consistency",
    "materiality", "trial_balance", "depreciation", "gradient_descent" }
DepthTopics == {"accounts_unit_2", "accounting_principles", "depreciation_unit"}

DepthComputeDepth ==
  \E cid \in DepthIds : ComputeDepth(cid) /\ UNCHANGED << confusion_run, requests >>
DepthSortByDepth ==
  \E topic \in DepthTopics : SortByDepth(TOPICS[topic]) /\ UNCHANGED << confusion_run, requests >>

NextDepth ==
  \/ DepthComputeDepth
  \/ DepthSortByDepth

SpecDepth == Init /\ [][NextDepth]_vars

(***************************************************************************)
(* SpecGraph: the graph queries in every order over one depth cache.  The  *)
(* transitive prerequisites are asked for concepts at the end of a chain,  *)
(* with two prerequisites, with none, and for an id outside the table; the *)
(* lists sorted are all the lists of up to three of five concepts of       *)
(* depths 0, 1, 1, 2, 2, repetitions included.                             *)
(***************************************************************************)
GraphIds ==
  { "entity_concept", "matching", "depreciation", "trial_balance", "gradient_descent",
    "backpropagation", "no_such_concept" }
SortIds == {"matching", "going_concern", "entity_concept", "prudence", "accrual"}
MaxSortLen == 3
SortLists == UNION {[1..n -> SortIds] : n \in 0..MaxSortLen}

GraphGetAllPrerequisites ==
  \E cid \in GraphIds : GetAllPrerequisites(cid) /\ UNCHANGED << confusion_run, requests >>
GraphSortByDepth ==
  \E ids \in SortLists : SortByDepth(ids) /\ UNCHANGED << confusion_run, requests >>

NextGraph ==
  \/ GraphGetAllPrerequisites
  \/ GraphSortByDepth

SpecGraph == Init /\ [][NextGraph]_vars

(***************************************************************************)
(* SpecTopic: get_topic_concepts called with names of every kind: exact    *)
(* keys, keys in other spellings, phrases with stop words, names without   *)
(* an alphanumeric character, and every name of one or two of the words    *)
(* below, which match topic keys or concept ids by prefix or match nothing.*)
(***************************************************************************)
TopicPhrases ==
  { Chars(""), Chars("   "), Chars("!!!"), Chars("_"),
    Chars("accounts_unit_2"), Chars("deep_learning_complete_path"), Chars("ml_foundations"),
    Chars("Accounts Unit 2"), Chars(" double-aspect "), Chars("teach me ledger accounts"),
    Chars("accountsunit2"), Chars("Ledger_Accounts!"), Chars("mlfoundations"),
    Chars("learn about the accounting equation"), Chars("accounting_equation"),
    Chars("the"), Chars("teach me"), Chars("explain the xyz"),
    Chars("please explain depreciation"), Chars("learn"), Chars("entity_concept") }
TopicWords ==
  { Chars("depreciation"), Chars("accounts"), Chars("network"), Chars("r"), Chars("h"),
    Chars("gradientx"), Chars("xyz"), Chars("the") }
TopicNames ==
  TopicPhrases \cup TopicWords \cup {w[1] \o Chars(" ") \o w[2] : w \in TopicWords \X TopicWords}

TopicGetTopicConcepts ==
  \E topic_name \in TopicNames : GetTopicConcepts(topic_name) /\ UNCHANGED << confusion_run, requests >>

NextTopic == TopicGetTopicConcepts

SpecTopic == Init /\ [][NextTopic]_vars

(***************************************************************************)
(* SpecUsers: requests of several users in every order.  The user ids sent *)
(* are spellings of two keys: the default user (empty, blank, given by     *)
(* name) and a named user, with and without surrounding whitespace.        *)
(* /generate is sent without mastery, with one level in range and with one *)
(* above range, for a topic of two root concepts and for an unknown topic. *)
(***************************************************************************)
UserIds ==
  { Chars(""), Chars("  "), Chars("default"), Chars(" default\t"),
    Chars("u1"), Chars(" u1"), Chars("u1\n") }
UserMasteryInputs ==
  { << >>, << << "gradient", 900000 >> >>, << << "linear_model", 1500000 >> >> }
GenerateTopics == {"ml_foundations", "no such topic"}

UsersGetUserGraph ==
  \E user_id \in UserIds : GetUserGraph(user_id) /\ UNCHANGED << confusion_run, requests >>
UsersGenerate ==
  \E user_id \in UserIds, user_mastery \in UserMasteryInputs, topic \in GenerateTopics :
    /\ \A cid \in Range(TOPICS["ml_foundations"]) :
         NormalizeUserId(user_id) \in Users =>
           DictGet(user_graphs[NormalizeUserId(user_id)].exposure_count, cid, 0) < MaxExposure
    /\ Generate(user_id, user_mastery, topic)
    /\ UNCHANGED << confusion_run, requests >>

NextUsers ==
  \/ UsersGetUserGraph
  \/ UsersGenerate

SpecUsers == Init /\ [][NextUsers]_vars

(***************************************************************************)
(* SpecTeach: the answers to check questions and the teaching plan.  A     *)
(* behaviour sets the mastery of one concept, reports answers of the four  *)
(* kinds on it (on a generator with the user's graph and on one without a  *)
(* graph), and then builds the bundle and teaching plan for that concept.  *)
(***************************************************************************)
TeachGetUserGraph ==
  \E user_id \in RawUserIds : ~Planned /\ GetUserGraph(user_id) /\ UNCHANGED << confusion_run, requests >>
TeachSetMastery ==
  \* the levels are the two thresholds of the depth rule, and 0.9
  \E u \in Users, cid \in OpIds, level \in {300000, 700000, 900000} :
    /\ ~Planned
    /\ OneConcept(u, cid)
    /\ SetMastery(u, cid, level)
    /\ UNCHANGED << confusion_run, requests >>
TeachPostInteractionUpdate ==
  \E u \in Users \cup {NoUser}, cid \in OpIds, correct \in BOOLEAN, misunderstanding_detected \in BOOLEAN :
    /\ ~Planned
    /\ u \in Users =>
         /\ OneConcept(u, cid)
         /\ DictGet(user_graphs[u].confusion_count, cid, 0)
              + (IF correct THEN 0 ELSE 1) + (IF misunderstanding_detected THEN 1 ELSE 0)
                <= MaxTeachConfusion
    /\ PostInteractionUpdate(u, cid, correct, misunderstanding_detected)
    /\ UNCHANGED << confusion_run, requests >>
TeachBuildTeachingBundle ==
  \E u \in Users, target \in OpIds :
    /\ ~Planned
    /\ OneConcept(u, target)
    /\ BuildTeachingBundle(u, target)
    /\ UNCHANGED << confusion_run, requests >>

NextTeach ==
  \/ TeachGetUserGraph
  \/ TeachSetMastery
  \/ TeachPostInteractionUpdate
  \/ TeachBuildTeachingBundle

SpecTeach == Init /\ [][NextTeach]_vars

(***************************************************************************)
(* SpecRequests: concurrent /generate requests of one user.  Requests      *)
(* arrive at any moment and are resumed in any order; the text-generation  *)
(* call of each ends with valid output, invalid output or an error.  The   *)
(* requests carry no override, or one for gradient on either side of the   *)
(* mastery threshold, one of them out of range, and name a topic that      *)
(* holds gradient or a topic that does not resolve.                        *)
(***************************************************************************)
RequestMasteryInputs ==
  { << >>, << << "gradient", 1500000 >> >>, << << "gradient", 100000 >> >> }
Outcomes == {"valid", "invalid", "provider_error"}

RequestsReceive ==
  \E user_id \in RawUserIds, user_mastery \in RequestMasteryInputs, topic \in GenerateTopics :
    /\ Len(requests) < MaxRequests
    /\ GenerateReceive(user_id, user_mastery, topic)
    /\ UNCHANGED confusion_run
RequestsResume ==
  \E r \in DOMAIN requests, outcome \in Outcomes :
    GenerateResume(r, outcome) /\ UNCHANGED confusion_run

NextRequests ==
  \/ RequestsReceive
  \/ RequestsResume

SpecRequests == Init /\ [][NextRequests]_vars

(***************************************************************************)
(* Properties of the mastery model                                         *)
(***************************************************************************)
Raw(u, cid) == DictGet(user_graphs[u].mastery, cid, 0)
ConfusionCount(u, cid) == DictGet(user_graphs[u].confusion_count, cid, 0)
ExposureCount(u, cid) == DictGet(user_graphs[u].exposure_count, cid, 0)
Effective(u, cid) == get_effective_mastery(user_graphs[u], cid)
\* 0.1 x n and 0.2 x n in 1e-6 units
Tenths(n) == n * (Unit \div 10)

\* C1: in every reachable state and for every concept id, effective mastery
\* is max(0, raw - 0.1 x confusion_count) and is never greater than raw mastery.
C1_EffectiveMastery ==
  \A u \in Users, cid \in ConceptIds :
    /\ Effective(u, cid) = Max(0, Raw(u, cid) - Tenths(ConfusionCount(u, cid)))
    /\ Effective(u, cid) <= Raw(u, cid)

\* a concept that was exposed and confused about, with a penalty in effect
C1_Witness ==
  \E u \in Users, cid \in OpIds :
    /\ ConfusionCount(u, cid) >= 1
    /\ ExposureCount(u, cid) >= 1
    /\ Effective(u, cid) > 0
    /\ Effective(u, cid) < Raw(u, cid)

\* C2 as stated: effective mastery equals raw mastery if and only if the
\* concept's confusion_count is 0.
C2_EqualIffNoConfusion ==
  \A u \in Users, cid \in ConceptIds :
    (Effective(u, cid) = Raw(u, cid)) <=> (ConfusionCount(u, cid) = 0)

\* C2 amended: effective mastery is at most raw mastery, and the two are
\* equal if and only if confusion_count is 0 or raw mastery is 0.
C2_EqualIffNoConfusionOrZero ==
  \A u \in Users, cid \in ConceptIds :
    /\ Effective(u, cid) <= Raw(u, cid)
    /\ (Effective(u, cid) = Raw(u, cid))
         <=> (ConfusionCount(u, cid) = 0 \/ Raw(u, cid) = 0)

\* a confused concept whose raw mastery is 0: effective = raw with a count > 0
C2_Witness ==
  \E u \in Users, cid \in OpIds :
    /\ ConfusionCount(u, cid) >= 1
    /\ Raw(u, cid) = 0
    /\ Effective(u, cid) = Raw(u, cid)

\* set_mastery stores the level clamped to [0, 1]; it has no failing case
SetMasteryClamps ==
  \A u \in Users, cid \in OpIds, level \in SetLevels :
    SetMastery(u, cid, level) =>
      Raw(u, cid)' = (IF level < 0 THEN 0 ELSE IF level > Unit THEN Unit ELSE level)

RawInRange == \A u \in Users, cid \in ConceptIds : Raw(u, cid) >= 0 /\ Raw(u, cid) <= Unit

\* a run of 12 or more record_confusion calls that began at raw 0.9 ends at 0.0
TwelveConfusions ==
  (confusion_run.k >= 12 /\ confusion_run.r0 = 900000)
    => Raw(confusion_run.user, confusion_run.cid) = 0

\* C3: after any sequence of set, record_confusion, record_correct and decay
\* calls every stored raw mastery lies in [0,1]; set clamps an out-of-range
\* level; 12 record_confusion calls on a concept starting at raw 0.9 leave raw
\* mastery at exactly 0.0.
C3_RawStaysInRange == [](RawInRange /\ TwelveConfusions) /\ [][SetMasteryClamps]_vars

\* the twelfth call of a run that began at raw 0.9 has been made
C3_Witness ==
  /\ confusion_run.k = 12
  /\ confusion_run.r0 = 900000
  /\ Raw(confusion_run.user, confusion_run.cid) = 0

\* one call: confusion_count + 1, raw - 0.1 floored at 0
ConfusionStep ==
  \A u \in Users, cid \in OpIds :
    RecordConfusion(u, cid) =>
      /\ ConfusionCount(u, cid)' = ConfusionCount(u, cid) + 1
      /\ Raw(u, cid)' = Max(0, Raw(u, cid) - Tenths(1))

\* k calls from raw r0 and confusion_count 0
ConfusionCompounds ==
  confusion_run.k > 0 =>
    LET u == confusion_run.user
        cid == confusion_run.cid
    IN  /\ ConfusionCount(u, cid) = confusion_run.k
        /\ Raw(u, cid) = Max(0, confusion_run.r0 - Tenths(confusion_run.k))
        /\ Effective(u, cid) = Max(0, confusion_run.r0 - Tenths(2 * confusion_run.k))

\* C4: record_confusion raises confusion_count by exactly 1 and lowers raw
\* mastery by 0.1 floored at 0; starting from raw r with confusion_count 0,
\* after k calls raw = max(0, r - 0.1k) and effective = max(0, r - 0.2k).
C4_ConfusionCompounds == []ConfusionCompounds /\ [][ConfusionStep]_vars

\* three calls into a run, with both channels still above the floor
C4_Witness ==
  /\ confusion_run.k = 3
  /\ confusion_run.r0 = 900000
  /\ Effective(confusion_run.user, confusion_run.cid) = 300000

(***************************************************************************)
(* Properties of planning.  The reference notions are defined from the     *)
(* concept table alone, without the depth cache and without the planner.   *)
(***************************************************************************)
SetMax(S) == CHOOSE m \in S : \A x \in S : x <= m
RECURSIVE SetSum(_)
SetSum(S) == IF S = {} THEN 0 ELSE LET x == CHOOSE y \in S : TRUE IN x[2] + SetSum(S \ {x})

\* depth by its defining equation
RECURSIVE RefDepth(_)
RefDepth(cid) ==
  IF depends_on(cid) = << >> THEN 0
  ELSE 1 + SetMax({RefDepth(d) : d \in Range(depends_on(cid))})

\* every concept reachable over depends_on, the concept itself excluded
RECURSIVE TransitivePrereqs(_)
TransitivePrereqs(cid) ==
  UNION {{d} \cup TransitivePrereqs(d) : d \in Range(depends_on(cid))}

IsWeak(u, cid) == Effective(u, cid) < MASTERY_THRESHOLD
NoDuplicates(s) == \A i, j \in DOMAIN s : s[i] = s[j] => i = j
AscendingDepth(s) == \A i, j \in DOMAIN s : i < j => RefDepth(s[i]) <= RefDepth(s[j])

PlanReturned == ret.op = "build_structured_plan"
BundleReturned == ret.op = "build_teaching_bundle"
PlanIds == Ids(ret.value.concept_sequence)

\* C5: build_structured_plan(topic) returns one entry for each concept of the
\* topic whose effective (not raw) mastery is below 0.6 and for no other
\* concept, in ascending depth, concepts of equal depth in topic order; when
\* every concept of the topic has effective mastery of at least 0.6 the
\* sequence returned is empty.
C5_PlanIsWeakConceptsByDepth ==
  PlanReturned =>
    LET u == ret.user
        topic_ids == TOPICS[ret.arg]
    IN  /\ Range(PlanIds) = {c \in Range(topic_ids) : IsWeak(u, c)}
        /\ NoDuplicates(PlanIds)
        /\ AscendingDepth(PlanIds)
        /\ \A i, j \in DOMAIN PlanIds :
             i < j /\ RefDepth(PlanIds[i]) = RefDepth(PlanIds[j])
               => IndexOf(topic_ids, PlanIds[i]) < IndexOf(topic_ids, PlanIds[j])
        /\ (\A c \in Range(topic_ids) : ~IsWeak(u, c)) => ret.value.concept_sequence = << >>

\* a plan that holds a concept whose raw mastery is 0.6 and whose effective
\* mastery is 0.5, and leaves out a mastered concept of the topic
C5_Witness ==
  /\ PlanReturned
  /\ ret.arg = "ledger_accounts"
  /\ Raw(ret.user, "accounting_equation") = MASTERY_THRESHOLD
  /\ Effective(ret.user, "accounting_equation") = 500000
  /\ "accounting_equation" \in Range(PlanIds)
  /\ "entity_concept" \notin Range(PlanIds)

\* the plan of a topic that the depth order rearranges
C5_WitnessReordered ==
  /\ PlanReturned
  /\ ret.arg = "training_neural_networks"
  /\ PlanIds = << "gradient", "loss_function", "gradient_descent", "learning_rate",
                  "backpropagation" >>

\* the empty plan of a topic whose concepts are all mastered
C5_WitnessEmpty ==
  /\ PlanReturned
  /\ ret.arg = "double_aspect"
  /\ ret.value.concept_sequence = << >>

BundleWeak == Ids(ret.value.bundle.weak_prerequisites)
BundleStrong == Ids(ret.value.bundle.strong_prerequisites)

\* C6: for every target concept and every mastery state the bundle holds at
\* most 5 concept nodes: 1 + |weak_prerequisites| + |strong_prerequisites| <= 5.
C6_BundleAtMostFiveNodes ==
  BundleReturned => 1 + Len(BundleWeak) + Len(BundleStrong) <= MAX_CONCEPT_NODES

\* a full bundle of a target with five transitive prerequisites
C6_Witness ==
  /\ BundleReturned
  /\ Cardinality(TransitivePrereqs(ret.arg)) = 5
  /\ 1 + Len(BundleWeak) + Len(BundleStrong) = MAX_CONCEPT_NODES

\* W and S: the transitive prerequisites in the order get_all_prerequisites
\* gave them, split by effective mastery
AllPrereqs == ret.value.bundle.all_prereqs
WeakPrereqs == SelectSeq(AllPrereqs, LAMBDA c : IsWeak(ret.user, c))
StrongPrereqs == SelectSeq(AllPrereqs, LAMBDA c : ~IsWeak(ret.user, c))

\* C7: with W and S the target's transitive prerequisites of effective
\* mastery below 0.6 and of at least 0.6, each in foundational-to-advanced
\* order, the weak list is the first min(4, |W|) entries of W and the strong
\* list is the first 4 - min(4, |W|) entries of S.
C7_WeakFirstThenStrong ==
  BundleReturned =>
    /\ Range(AllPrereqs) = TransitivePrereqs(ret.arg)
    /\ NoDuplicates(AllPrereqs)
    /\ AscendingDepth(AllPrereqs)
    /\ BundleWeak = SubSeq(WeakPrereqs, 1, Min(4, Len(WeakPrereqs)))
    /\ BundleStrong = SubSeq(StrongPrereqs, 1,
                             Min(4 - Min(4, Len(WeakPrereqs)), Len(StrongPrereqs)))

\* weak and strong prerequisites both kept, and a strong one dropped
C7_Witness ==
  /\ BundleReturned
  /\ Len(WeakPrereqs) = 3
  /\ Len(StrongPrereqs) = 2
  /\ Len(BundleWeak) = 3
  /\ Len(BundleStrong) = 1

\* four weak prerequisites kept, the fifth and the strong ones dropped
C7_WitnessWeakDropped ==
  /\ BundleReturned
  /\ Len(WeakPrereqs) = 5
  /\ Len(BundleWeak) = 4
  /\ BundleStrong = << >>

HasWeakPrereq(u, cid) == \E p \in TransitivePrereqs(cid) : IsWeak(u, p)

\* C8: calibrate_confidence returns at most 0.5 for a target when a transitive
\* prerequisite of the target has effective mastery below 0.6, one that the
\* 5-node cap dropped from the bundle included.
C8_WeakPrereqCapsConfidence ==
  /\ BundleReturned /\ HasWeakPrereq(ret.user, ret.arg)
       => ret.value.confidence <= WEAK_PREREQ_CONFIDENCE_CAP
  /\ PlanReturned =>
       \A i \in DOMAIN ret.value.concept_sequence :
         LET entry == ret.value.concept_sequence[i]
         IN  HasWeakPrereq(ret.user, entry.id) => entry.confidence <= WEAK_PREREQ_CONFIDENCE_CAP

\* the ceiling in effect: one weak prerequisite among strong ones, confidence 0.5
C8_Witness ==
  /\ BundleReturned
  /\ Len(WeakPrereqs) = 1
  /\ Len(BundleStrong) = 3
  /\ ret.value.confidence = WEAK_PREREQ_CONFIDENCE_CAP

\* a weak prerequisite that the cap dropped from the bundle
C8_WitnessDropped ==
  /\ BundleReturned
  /\ \E p \in TransitivePrereqs(ret.arg) :
       IsWeak(ret.user, p) /\ p \notin Range(BundleWeak)
  /\ ret.value.confidence <= WEAK_PREREQ_CONFIDENCE_CAP

\* the reference confidence, over all the transitive prerequisites of cid
RefConfidence(u, cid) ==
  LET P == TransitivePrereqs(cid)
      n_total == Cardinality(P)
      n_strong == Cardinality({p \in P : ~IsWeak(u, p)})
      total == SetSum({<< p, Effective(u, p) >> : p \in P})
      nodes == Min(MAX_CONCEPT_NODES, n_total + 1)
      den == 20 * n_total * MAX_CONCEPT_NODES
      num == 10 * total * MAX_CONCEPT_NODES
               + 7 * Unit * n_strong * MAX_CONCEPT_NODES
               + 3 * Unit * nodes * n_total
      capped == IF n_strong < n_total THEN Min(num, WEAK_PREREQ_CONFIDENCE_CAP * den) ELSE num
  IN  IF P = {} THEN Unit ELSE Round3(Max(0, Min(Unit * den, capped)), den)

\* C9: for every target and mastery state the confidence equals the reference
\* value: 1.0 without prerequisites, otherwise 0.5 avg_mastery + 0.35
\* completeness + 0.15 node_factor, capped at 0.5 if a prerequisite is weak,
\* clamped to [0,1] and rounded to 3 decimals, avg_mastery, completeness and
\* node_factor being taken over all transitive prerequisites of the target.
C9_ConfidenceIsReference ==
  BundleReturned => ret.value.confidence = RefConfidence(ret.user, ret.arg)

\* C10: depth(c) is 0 exactly when c declares no prerequisites and otherwise
\* 1 + the maximum depth of its direct prerequisites (matching has depth 2);
\* the memoized value returned is the same whatever concepts depth was
\* requested for beforehand and in whatever order.
C10_DepthIsMemoizedDefinition ==
  /\ \A c \in DOMAIN depth_cache :
       /\ depth_cache[c] = RefDepth(c)
       /\ depth_cache[c] = 0 <=> depends_on(c) = << >>
  /\ ret.op = "compute_depth" => ret.value = RefDepth(ret.arg)
  /\ "matching" \in DOMAIN depth_cache => depth_cache["matching"] = 2

\* depth 3 returned for depreciation from a cache that already held one of its
\* two prerequisites and not the other
C10_Witness ==
  /\ ret.op = "compute_depth"
  /\ ret.arg = "depreciation"
  /\ ret.value = 3
  /\ depth_cache["matching"] = 2
  /\ depth_cache["historical_cost"] = 1
  /\ "going_concern" \in DOMAIN depth_cache

(***************************************************************************)
(* Properties of the graph queries                                         *)
(***************************************************************************)
\* the call op returned a value; the call op raised
Returned(op) == ret.op = op /\ "value" \in DOMAIN ret
Raised(op) == ret.op = op /\ "error" \in DOMAIN ret

\* C11: get_all_prerequisites(id) returns exactly the ancestors of id under
\* depends_on, without id and without duplicates, in non-decreasing depth, so
\* that every listed concept comes after all of its own prerequisites.
C11_AllPrerequisitesAreAncestorsByDepth ==
  Returned("get_all_prerequisites") =>
    LET ids == ret.value
    IN  /\ Range(ids) = TransitivePrereqs(ret.arg)
        /\ ret.arg \notin Range(ids)
        /\ NoDuplicates(ids)
        /\ \A i, j \in DOMAIN ids : i < j => RefDepth(ids[i]) <= RefDepth(ids[j])
        /\ \A j \in DOMAIN ids : \A p \in TransitivePrereqs(ids[j]) :
             \E i \in 1..(j - 1) : ids[i] = p

\* the eight ancestors of backpropagation, the two prerequisites of
\* gradient_descent (depths 5 and 0) placed by depth
C11_Witness ==
  /\ Returned("get_all_prerequisites")
  /\ ret.arg = "backpropagation"
  /\ Len(ret.value) = 8
  /\ ret.value[8] = "gradient_descent"
  /\ ret.value[7] = "loss_function"
  /\ {ret.value[1], ret.value[2]} = {"linear_model", "gradient"}

\* equal depths come in either order, with the process's hash salt
C11_WitnessTieOrder ==
  /\ Returned("get_all_prerequisites")
  /\ ret.arg = "depreciation"
  /\ ret.value[2] = "historical_cost"
  /\ ret.value[3] = "accrual"

\* the elements of s of depth d, in their order in s
OfDepth(s, d) == SelectSeq(s, LAMBDA c : RefDepth(c) = d)
Depths(s) == {RefDepth(s[i]) : i \in DOMAIN s}

\* C12: sort_by_depth returns a permutation of its input in non-decreasing
\* depth in which ids of equal depth keep their input order, and applied to
\* its own output it returns that same sequence.
C12_SortIsStableAndIdempotent ==
  Returned("sort_by_depth") =>
    LET input == ret.arg
        output == ret.value
    IN  /\ Len(output) = Len(input)
        /\ \A c \in Range(input) \cup Range(output) :
             Cardinality({i \in DOMAIN output : output[i] = c})
               = Cardinality({i \in DOMAIN input : input[i] = c})
        /\ AscendingDepth(output)
        /\ \A d \in Depths(input) : OfDepth(output, d) = OfDepth(input, d)
        /\ sort_by_depth(depth_cache, output).ids = output

\* a list out of depth order whose two concepts of depth 2 are in the reverse
\* of their table order: reordered by depth, the two kept as given
C12_Witness ==
  /\ Returned("sort_by_depth")
  /\ ret.arg = << "prudence", "going_concern", "matching" >>
  /\ ret.value = << "going_concern", "prudence", "matching" >>

\* a list with a repeated id
C12_WitnessRepeated ==
  /\ Returned("sort_by_depth")
  /\ ret.arg = << "matching", "accrual", "matching" >>
  /\ ret.value = << "accrual", "matching", "matching" >>

(***************************************************************************)
(* Properties of topic resolution.  The strategies are restated over the   *)
(* tables as relations between a name and a topic key.                     *)
(***************************************************************************)
TopicCall == ret.op = "get_topic_concepts"
\* the tokens of the normalized name
QueryTokens(name) == NonEmpty(split(normalize_topic_name(name), "_"))
PrefixRelated(a, b) == startswith(a, b) \/ startswith(b, a)
\* key matches name under (a), (b), (c); token matches key under (d), (e)
MatchesExactly(name, key) == Chars(key) = name
MatchesNormalized(name, key) == Chars(key) = normalize_topic_name(name)
MatchesWithoutUnderscores(name, key) ==
  remove_underscores(Chars(key)) = remove_underscores(normalize_topic_name(name))
MatchesByTokenPrefix(token, key) ==
  \E key_token \in Range(split(Chars(key), "_")) : PrefixRelated(token, key_token)
MatchesByConceptName(token, key) ==
  \E cid \in Range(TOPICS[key]) : PrefixRelated(token, Chars(cid))
MatchesDirectly(name) ==
  \E key \in TopicKeys :
    MatchesExactly(name, key) \/ MatchesNormalized(name, key) \/ MatchesWithoutUnderscores(name, key)
\* resolution of name falls back to (d); to (e)
FallsBackToD(name) ==
  /\ ~MatchesDirectly(name)
  /\ \E t \in Range(QueryTokens(name)), key \in TopicKeys : MatchesByTokenPrefix(t, key)
FallsBackToE(name) ==
  /\ ~MatchesDirectly(name)
  /\ ~\E t \in Range(QueryTokens(name)), key \in TopicKeys : MatchesByTokenPrefix(t, key)
  /\ \E t \in Range(QueryTokens(name)), key \in TopicKeys : MatchesByConceptName(t, key)
\* the first key, in table order, of a non-empty set of keys
FirstKey(keys) == TopicOrder[First({i \in DOMAIN TopicOrder : TopicOrder[i] \in keys})]
AccountingEquationQuery == Chars("learn about the accounting equation")

\* C13: get_topic_concepts("learn about the accounting equation") returns the
\* concept list that get_topic_concepts("accounting_equation") returns, the
\* query being reduced to the tokens accounting and equation.
C13_StopWordsStripped ==
  (TopicCall /\ ret.arg = AccountingEquationQuery) =>
    /\ Returned("get_topic_concepts")
    /\ QueryTokens(ret.arg) = << Chars("accounting"), Chars("equation") >>
    /\ FindTopicKey(Chars("accounting_equation")).index # 0
    /\ ret.value = TOPICS[TopicOrder[FindTopicKey(Chars("accounting_equation")).index]]

\* the query answered: both names resolve by token prefix to accounting_principles
C13_Witness ==
  /\ Returned("get_topic_concepts")
  /\ ret.arg = AccountingEquationQuery
  /\ ret.value = TOPICS["accounting_principles"]
  /\ FindTopicKey(Chars("accounting_equation")).strategy = 4

\* C14 as claimed: under (d) and under (e) the topic returned is the first,
\* in table order, of all the topics that match the query.
C14_FirstMatchingTopicInTableOrder ==
  TopicCall =>
    LET tokens == QueryTokens(ret.arg)
    IN  /\ FallsBackToD(ret.arg) =>
             /\ Returned("get_topic_concepts")
             /\ ret.value = TOPICS[FirstKey({key \in TopicKeys :
                                     \E t \in Range(tokens) : MatchesByTokenPrefix(t, key)})]
        /\ FallsBackToE(ret.arg) =>
             /\ Returned("get_topic_concepts")
             /\ ret.value = TOPICS[FirstKey({key \in TopicKeys :
                                     \E t \in Range(tokens) : MatchesByConceptName(t, key)})]

\* the first query token that matches a topic key by prefix; a concept id
FirstTokenD(tokens) ==
  tokens[First({t \in DOMAIN tokens : \E key \in TopicKeys : MatchesByTokenPrefix(tokens[t], key)})]
FirstTokenE(tokens) ==
  tokens[First({t \in DOMAIN tokens : \E key \in TopicKeys : MatchesByConceptName(tokens[t], key)})]
\* the first concept, in table order, that token matches
FirstConcept(token) ==
  ConceptOrder[First({c \in DOMAIN ConceptOrder : PrefixRelated(token, Chars(ConceptOrder[c]))})]

\* C14, amended: under (d) and under (e) the first query token that matches
\* anything decides.  Under (d) the topic returned is the first topic in
\* table order that this token matches; under (e) it is the first topic in
\* table order containing the first concept in table order that this token
\* matches.  For a query of one token that is the first of all the matching
\* topics.
C14_FirstTokenThenTableOrder ==
  TopicCall =>
    LET tokens == QueryTokens(ret.arg)
    IN  /\ FallsBackToD(ret.arg) =>
             /\ Returned("get_topic_concepts")
             /\ ret.value = TOPICS[FirstKey({key \in TopicKeys :
                                     MatchesByTokenPrefix(FirstTokenD(tokens), key)})]
        /\ FallsBackToE(ret.arg) =>
             /\ Returned("get_topic_concepts")
             /\ ret.value = TOPICS[FirstKey({key \in TopicKeys :
                                     FirstConcept(FirstTokenE(tokens)) \in Range(TOPICS[key])})]
        /\ (Len(tokens) = 1 /\ FallsBackToE(ret.arg)) =>
             ret.value = TOPICS[FirstKey({key \in TopicKeys :
                                   MatchesByConceptName(tokens[1], key)})]

\* two tokens matching different topics under (d): the first token's topic is
\* returned although the second token's topic is earlier in the table
C14_Witness ==
  /\ Returned("get_topic_concepts")
  /\ ret.arg = Chars("depreciation accounts")
  /\ FallsBackToD(ret.arg)
  /\ ret.value = TOPICS["depreciation_unit"]
  /\ MatchesByTokenPrefix(Chars("accounts"), "accounts_unit_2")

\* the same under (e): r matches regularization, h matches historical_cost
C14_WitnessConceptName ==
  /\ Returned("get_topic_concepts")
  /\ ret.arg = Chars("r h")
  /\ FallsBackToE(ret.arg)
  /\ ret.value = TOPICS["model_generalization"]
  /\ MatchesByConceptName(Chars("h"), "accounting_principles")

\* C15: get_topic_concepts raises KeyError, the error listing every topic
\* key, exactly when the name matches under none of the five strategies, as
\* the empty name and a name without an alphanumeric character do; an exact
\* topic key resolves to that key's own concept list.
C15_NotFoundIffNoStrategyMatches ==
  TopicCall =>
    /\ Raised("get_topic_concepts") <=>
         ~(\/ MatchesDirectly(ret.arg)
           \/ \E t \in Range(QueryTokens(ret.arg)), key \in TopicKeys :
                MatchesByTokenPrefix(t, key) \/ MatchesByConceptName(t, key))
    /\ Raised("get_topic_concepts") =>
         /\ Range(ret.error.available) = TopicKeys
         /\ NoDuplicates(ret.error.available)
    /\ (\A i \in DOMAIN ret.arg : ~IsAlnum(lower(ret.arg)[i])) => Raised("get_topic_concepts")
    /\ \A key \in TopicKeys :
         ret.arg = Chars(key) => Returned("get_topic_concepts") /\ ret.value = TOPICS[key]

\* a name without an alphanumeric character is refused with the twelve keys
C15_Witness ==
  /\ Raised("get_topic_concepts")
  /\ ret.arg = Chars("!!!")
  /\ Len(ret.error.available) = 12
  /\ ret.error.available[1] = "accounting_principles"

\* the empty name; a name of stop words only; an exact key
C15_WitnessEmpty == Raised("get_topic_concepts") /\ ret.arg = << >>
C15_WitnessStopWords == Raised("get_topic_concepts") /\ ret.arg = Chars("teach me")
C15_WitnessExactKey ==
  /\ Returned("get_topic_concepts")
  /\ ret.arg = Chars("deep_learning_complete_path")
  /\ Len(ret.value) = 16

(***************************************************************************)
(* Frame properties of planning and of the user store                      *)
(***************************************************************************)
SameGraph(u) ==
  /\ user_graphs'[u].mastery = user_graphs[u].mastery
  /\ user_graphs'[u].confusion_count = user_graphs[u].confusion_count
  /\ user_graphs'[u].exposure_count = user_graphs[u].exposure_count
  /\ user_graphs'[u].last_updated = user_graphs[u].last_updated
PlanningStep == PlanBuildTeachingBundle \/ PlanBuildStructuredPlan
PlanningReadOnly == PlanningStep => (DOMAIN user_graphs' = Users /\ \A u \in Users : SameGraph(u))

\* C16: building a plan changes no raw mastery, confusion_count,
\* exposure_count or timestamp of any user and creates no record for a
\* concept it reads; the concept and topic tables are constants.
C16_PlanningIsReadOnly == [][PlanningReadOnly]_vars

\* a plan returned with a concept in it that the user's graph has no record of
C16_Witness ==
  /\ PlanReturned
  /\ ret.arg = "double_aspect"
  /\ \E i \in DOMAIN PlanIds : PlanIds[i] = "dual_aspect"
  /\ "dual_aspect" \notin DOMAIN user_graphs[ret.user].mastery
  /\ "dual_aspect" \notin DOMAIN user_graphs[ret.user].confusion_count

\* the key of a user id: the id without its leading and trailing whitespace,
\* "default" when nothing is left
RefKey(user_id) ==
  LET n == Len(user_id)
      bounds == CHOOSE b \in (1..(n + 1)) \X (0..n) :
                  /\ b[1] <= b[2] + 1
                  /\ \A k \in 1..(b[1] - 1) : user_id[k] \in Whitespace
                  /\ \A k \in (b[2] + 1)..n : user_id[k] \in Whitespace
                  /\ b[1] <= b[2] => (user_id[b[1]] \notin Whitespace /\ user_id[b[2]] \notin Whitespace)
      trimmed == SubSeq(user_id, bounds[1], bounds[2])
  IN  IF trimmed = << >> THEN Chars("default") ELSE trimmed

\* the user id carried by the request that the step serves
RequestUserId ==
  IF ret'.op = "generate" THEN ret'.arg.user_id ELSE ret'.arg
\* the step touches the model under key, which exists afterwards, and no other
ActsOnlyOn(key) ==
  /\ key \in DOMAIN user_graphs'
  /\ \A u \in Users : u \in DOMAIN user_graphs'
  /\ \A u \in DOMAIN user_graphs' : u # key => (u \in Users /\ user_graphs'[u] = user_graphs[u])

\* C17: a request operates on the model stored under its user id trimmed of
\* whitespace, "default" for the empty string, so two requests operate on the
\* same model exactly when their normalized ids are equal; in every
\* interleaving of requests a step on one user's model leaves every other
\* user's model unchanged.
C17_StoreKeyedByNormalizedId ==
  [][ret'.op \in {"_get_user_graph", "generate"} => ActsOnlyOn(RefKey(RequestUserId))]_vars

\* two users after interleaved requests: u1, last served under the id
\* "u1\n", with a mastery level applied and an exposure recorded, the default
\* user with another exposure recorded and no level applied
C17_Witness ==
  /\ Users = {Chars("default"), Chars("u1")}
  /\ ret.op = "generate"
  /\ ret.arg.user_id = Chars("u1\n")
  /\ ExposureCount(Chars("u1"), "linear_model") = 1
  /\ Raw(Chars("u1"), "gradient") = 900000
  /\ ExposureCount(Chars("u1"), "gradient") = 0
  /\ ExposureCount(Chars("default"), "gradient") = 1
  /\ Raw(Chars("default"), "gradient") = 0

\* the step is the first reference, by _get_user_graph, to a user id
FirstReference ==
  /\ ret'.op = "_get_user_graph"
  /\ ret'.user \notin Users
  /\ ret'.user \in DOMAIN user_graphs'
NoHistory(ug) ==
  /\ ug.confusion_count = EmptyDict
  /\ ug.exposure_count = EmptyDict
  /\ ug.last_updated = EmptyDict
SeededIds == {"entity_concept", "accounting_equation", "accrual", "matching"}
SeedOf(cid) ==
  CASE cid = "entity_concept" -> 900000
    [] cid = "accounting_equation" -> 700000
    [] cid = "accrual" -> 200000
    [] cid = "matching" -> 100000

\* C18 as claimed: the first reference to a user id yields a model without
\* any mastery, confusion, exposure or timestamp entry, every concept at raw
\* and effective mastery 0.0.
C18_FirstReferenceIsEmptyModel ==
  [][FirstReference =>
       LET ug == user_graphs'[ret'.user]
       IN  /\ "value" \in DOMAIN ret'
           /\ NoHistory(ug)
           /\ ug.mastery = EmptyDict
           /\ \A cid \in ConceptIds : get_mastery(ug, cid) = 0 /\ get_effective_mastery(ug, cid) = 0]_vars

\* C18, amended: the first reference to a user id never fails and yields a
\* model without any confusion, exposure or timestamp entry whose mastery
\* entries are the four seeded ones (entity_concept 0.9, accounting_equation
\* 0.7, accrual 0.2, matching 0.1); raw and effective mastery are the seed for
\* these and 0.0 for every other concept.
C18_FirstReferenceIsSeededModel ==
  [][FirstReference =>
       LET ug == user_graphs'[ret'.user]
       IN  /\ "value" \in DOMAIN ret'
           /\ NoHistory(ug)
           /\ DOMAIN ug.mastery = SeededIds
           /\ \A cid \in SeededIds :
                get_mastery(ug, cid) = SeedOf(cid) /\ get_effective_mastery(ug, cid) = SeedOf(cid)
           /\ \A cid \in ConceptIds \ SeededIds :
                get_mastery(ug, cid) = 0 /\ get_effective_mastery(ug, cid) = 0]_vars

\* the default user just referenced for the first time, by a blank id, after
\* u1 was served a lesson
C18_Witness ==
  /\ ret.op = "_get_user_graph"
  /\ ret.arg = Chars("  ")
  /\ ret.user = Chars("default")
  /\ NoHistory(user_graphs[Chars("default")])
  /\ Raw(Chars("default"), "entity_concept") = 900000
  /\ Chars("u1") \in Users
  /\ ExposureCount(Chars("u1"), "gradient") = 1

(***************************************************************************)
(* Properties of the other recording calls                                 *)
(***************************************************************************)
\* 0.05 in 1e-6 units
Twentieth == Unit \div 20

\* one call of record_correct_answer on (u, cid)
CorrectAnswerStep ==
  \A u \in Users, cid \in OpIds :
    RecordCorrectAnswer(u, cid) =>
      /\ Raw(u, cid)' = (IF Raw(u, cid) + Twentieth > Unit THEN Unit ELSE Raw(u, cid) + Twentieth)
      /\ user_graphs'[u].confusion_count = user_graphs[u].confusion_count
      /\ user_graphs'[u].exposure_count = user_graphs[u].exposure_count
      /\ Effective(u, cid)' <= Effective(u, cid) + Twentieth
      /\ Effective(u, cid)' = Max(0, Raw(u, cid)' - Tenths(ConfusionCount(u, cid)))

\* C19: record_correct(id) raises raw mastery of id by 0.05 capped at 1.0 and
\* leaves confusion_count and exposure_count of every concept unchanged, so
\* effective mastery rises by at most 0.05 and the confusion penalty accrued
\* before the call is still subtracted after it.
C19_CorrectAnswerKeepsPenalty == [][CorrectAnswerStep]_vars

\* a confused concept after correct answers: with the clock at 0 decay takes
\* nothing off, so a raw mastery of 0.95 was reached by record_correct_answer
C19_Witness ==
  \E u \in Users, cid \in OpIds :
    /\ clock = 0
    /\ ConfusionCount(u, cid) >= 1
    /\ Raw(u, cid) = 950000
    /\ Effective(u, cid) < Raw(u, cid)

\* the cap: a confused concept whose raw mastery is back at 1.0, penalty kept
C19_WitnessCapped ==
  \E u \in Users, cid \in OpIds :
    /\ ConfusionCount(u, cid) >= 2
    /\ Raw(u, cid) = Unit
    /\ Effective(u, cid) = Unit - Tenths(ConfusionCount(u, cid))

\* one call of record_exposure on (u, cid)
ExposureStep ==
  \A u \in Users, cid \in OpIds :
    RecordExposure(u, cid) =>
      /\ ExposureCount(u, cid)' = ExposureCount(u, cid) + 1
      /\ \A other \in ConceptIds \ {cid} : ExposureCount(u, other)' = ExposureCount(u, other)
      /\ user_graphs'[u].mastery = user_graphs[u].mastery
      /\ user_graphs'[u].confusion_count = user_graphs[u].confusion_count
      /\ \A c \in ConceptIds : Effective(u, c)' = Effective(u, c)

\* C20: record_exposure(id) raises exposure_count of id by exactly 1 and leaves
\* the raw mastery, confusion_count and effective mastery of every concept
\* unchanged; the raw-mastery table gets no entry it did not have.
C20_ExposureOnlyCounts == [][ExposureStep]_vars

\* an exposed concept that still has no raw-mastery entry
C20_Witness ==
  \E u \in Users :
    /\ ExposureCount(u, "dual_aspect") = 1
    /\ "dual_aspect" \notin DOMAIN user_graphs[u].mastery

\* one call of apply_decay on (u, cid); 1e-6 per second is one unit per second
DecayStep ==
  \A u \in Users, cid \in OpIds :
    ApplyDecay(u, cid) =>
      IF cid \notin DOMAIN user_graphs[u].last_updated
      THEN user_graphs' = user_graphs
      ELSE /\ Raw(u, cid)' = Max(0, Raw(u, cid) - (clock - user_graphs[u].last_updated[cid]))
           /\ \A other \in ConceptIds \ {cid} : Raw(u, other)' = Raw(u, other)
           /\ user_graphs'[u].confusion_count = user_graphs[u].confusion_count
           /\ user_graphs'[u].exposure_count = user_graphs[u].exposure_count
           /\ user_graphs'[u].last_updated = user_graphs[u].last_updated

\* C21: decay(id) changes nothing when the concept has no last-update
\* timestamp, which includes the seeded concepts never touched; otherwise it
\* lowers raw mastery by 1e-6 x the seconds since the last update, floored at
\* 0, and leaves confusion_count, exposure_count and the timestamp unchanged.
C21_DecayByElapsedTime == [][DecayStep]_vars

\* a concept last touched at time 0, seen at time 50000 with the raw mastery
\* two decays leave of 0.25: the timestamp did not move, so each took 0.05
C21_Witness ==
  \E u \in Users :
    /\ clock = 50000
    /\ "dual_aspect" \in DOMAIN user_graphs[u].last_updated
    /\ user_graphs[u].last_updated["dual_aspect"] = 0
    /\ ExposureCount(u, "dual_aspect") = 1
    /\ ConfusionCount(u, "dual_aspect") = 0
    /\ Raw(u, "dual_aspect") = 150000

\* a seeded concept never touched, after time has passed: decay is a no-op on it
C21_WitnessSeeded ==
  \E u \in Users :
    /\ clock = 50000
    /\ "entity_concept" \notin DOMAIN user_graphs[u].last_updated
    /\ Raw(u, "entity_concept") = 900000

(***************************************************************************)
(* Properties of the teaching plan and of the answers to check questions   *)
(***************************************************************************)
ExplanationDepth == ret.value.teaching_plan.explanation_depth
\* the target's effective mastery, from the definition: max(0, raw - 0.1 x count)
TargetEffective == Max(0, Raw(ret.user, ret.arg) - Tenths(ConfusionCount(ret.user, ret.arg)))

\* C22: explanation_depth is "high" when the target's effective mastery is
\* below 0.3, "medium" when it is in [0.3, 0.7], both ends included, and "low"
\* when it is above 0.7; a target with raw 0.9 and confusion_count 3 gets
\* "medium".
C22_ExplanationDepthByEffective ==
  BundleReturned =>
    /\ (ExplanationDepth = "high") <=> (TargetEffective < 300000)
    /\ (ExplanationDepth = "medium") <=> (TargetEffective >= 300000 /\ TargetEffective <= 700000)
    /\ (ExplanationDepth = "low") <=> (TargetEffective > 700000)
    /\ (Raw(ret.user, ret.arg) = 900000 /\ ConfusionCount(ret.user, ret.arg) = 3)
         => ExplanationDepth = "medium"

\* the plan for a target with raw 0.9 and confusion_count 3
C22_Witness ==
  /\ BundleReturned
  /\ Raw(ret.user, ret.arg) = 900000
  /\ ConfusionCount(ret.user, ret.arg) = 3
  /\ ExplanationDepth = "medium"

\* plans at the two thresholds, the penalty in effect: 0.3 and 0.7 are "medium"
C22_WitnessLowerEnd ==
  BundleReturned /\ ConfusionCount(ret.user, ret.arg) >= 1 /\ TargetEffective = 300000

C22_WitnessUpperEnd ==
  BundleReturned /\ ConfusionCount(ret.user, ret.arg) >= 1 /\ TargetEffective = 700000

\* plans on either side of the thresholds
C22_WitnessHigh ==
  BundleReturned /\ TargetEffective = 250000 /\ ExplanationDepth = "high"

C22_WitnessLow ==
  BundleReturned /\ TargetEffective = 750000 /\ ExplanationDepth = "low"

\* the bundle the same call builds in a process whose string hashes are salted by seed
BundleUnder(seed) == build_teaching_bundle(ret.arg, depth_cache, seed, user_graphs[ret.user])

\* C23: for a fixed concept table and mastery state build_teaching_bundle
\* returns the same weak and strong prerequisite lists in every process: the
\* lists do not depend on the iteration order of the visited set.
C23_BundleIndependentOfSetOrder ==
  BundleReturned =>
    \A seed \in HashSeeds :
      /\ BundleUnder(seed).weak_prerequisites = ret.value.bundle.weak_prerequisites
      /\ BundleUnder(seed).strong_prerequisites = ret.value.bundle.strong_prerequisites

\* C25: in the sequence build_structured_plan returns, a concept that is a
\* transitive prerequisite of another concept of the sequence comes before
\* it, and no concept appears twice.
C25_PrerequisitesComeFirst ==
  PlanReturned =>
    /\ \A i, j \in DOMAIN PlanIds :
         PlanIds[i] \in TransitivePrereqs(PlanIds[j]) => i < j
    /\ NoDuplicates(PlanIds)

\* a plan with a concept and one of its prerequisites in it, whose order is
\* not the topic's: the sort moved a concept in front of one listed before it
C25_Witness ==
  /\ PlanReturned
  /\ \E i, j \in DOMAIN PlanIds : i < j /\ PlanIds[i] \in TransitivePrereqs(PlanIds[j])
  /\ \E i, j \in DOMAIN PlanIds :
       i < j /\ IndexOf(TOPICS[ret.arg], PlanIds[i]) > IndexOf(TOPICS[ret.arg], PlanIds[j])

(***************************************************************************)
(* Properties of the confusion count over time                             *)
(***************************************************************************)
\* no step lowers a confusion_count or removes a user, and a step that changes
\* a confusion_count is a record_confusion call
ConfusionCountGrows ==
  /\ Users \subseteq DOMAIN user_graphs'
  /\ \A u \in Users, cid \in ConceptIds :
       /\ ConfusionCount(u, cid)' >= ConfusionCount(u, cid)
       /\ ConfusionCount(u, cid)' # ConfusionCount(u, cid) => RecordConfusion(u, cid)

\* what a confusion_count of 5 and of 10 means for the effective mastery
ConfusionCountCaps ==
  \A u \in Users, cid \in ConceptIds :
    /\ ConfusionCount(u, cid) >= 5 =>
         /\ Effective(u, cid) <= 500000
         /\ filter_unknown(user_graphs[u], << cid >>, MASTERY_THRESHOLD) = << cid >>
    /\ ConfusionCount(u, cid) >= 10 => Effective(u, cid) = 0

\* C26: the confusion_count of a concept never decreases and only
\* record_confusion changes it; from the state in which it reaches 5 on, the
\* concept's effective mastery is at most 0.5 and the concept is classified
\* unknown, and from the state in which it reaches 10 on its effective
\* mastery is 0, whatever set or record_correct calls follow.
C26_ConfusionIsPermanent == []ConfusionCountCaps /\ [][ConfusionCountGrows]_vars

\* raw mastery set back to 1.0 after ten confusions: effective mastery is 0
C26_Witness ==
  \E u \in Users, cid \in OpIds :
    ConfusionCount(u, cid) = 10 /\ Raw(u, cid) = Unit /\ Effective(u, cid) = 0

\* raw mastery back at 1.0 after five confusions: effective mastery is 0.5
C26_WitnessFive ==
  \E u \in Users, cid \in OpIds :
    ConfusionCount(u, cid) = 5 /\ Raw(u, cid) = Unit /\ Effective(u, cid) = 500000

(***************************************************************************)
(* Properties of post_interaction_update, read from the call recorded in   *)
(* ret: the step that records it is the call.                              *)
(***************************************************************************)
\* the step records the call post_interaction_update(cid, correct, misunderstanding)
\* on a generator with u's graph
PostCalled(u, cid, correct, misunderstanding) ==
  ret' = Return("post_interaction_update", u,
                [concept_id |-> cid, correct |-> correct,
                 misunderstanding_detected |-> misunderstanding], None)
\* raw mastery after the answer alone was recorded
RawAfterAnswer(u, cid, correct) ==
  IF correct
  THEN (IF Raw(u, cid) + Twentieth > Unit THEN Unit ELSE Raw(u, cid) + Twentieth)
  ELSE Max(0, Raw(u, cid) - Tenths(1))
\* what every call does: nothing without a graph; otherwise one count for an
\* incorrect answer and one for a misunderstanding, on this concept only
PostCounts(u, cid, correct, misunderstanding) ==
  IF u = NoUser THEN user_graphs' = user_graphs
  ELSE /\ ConfusionCount(u, cid)' =
            ConfusionCount(u, cid) + (IF correct THEN 0 ELSE 1) + (IF misunderstanding THEN 1 ELSE 0)
       /\ ~misunderstanding => Raw(u, cid)' = RawAfterAnswer(u, cid, correct)
       /\ (~correct /\ misunderstanding) =>
            /\ Raw(u, cid)' <= Raw(u, cid)
            /\ Raw(u, cid)' >= Raw(u, cid) - Tenths(2)
            /\ Raw(u, cid)' = Max(0, Raw(u, cid) - Tenths(2))
       /\ \A other \in ConceptIds \ {cid} :
            /\ Raw(u, other)' = Raw(u, other)
            /\ ConfusionCount(u, other)' = ConfusionCount(u, other)
       /\ user_graphs'[u].exposure_count = user_graphs[u].exposure_count
PostCalls == (Users \cup {NoUser}) \X OpIds \X BOOLEAN \X BOOLEAN

\* C29 as stated: post_interaction_update applies record_correct or
\* record_confusion and one further record_confusion on a misunderstanding; an
\* incorrect answer with a misunderstanding raises confusion_count by 2 and
\* lowers raw by up to 0.2; a correct answer with one raises raw by 0.05 capped
\* at 1.0 and then lowers it by 0.1, confusion_count + 1; without a user model
\* nothing changes.
C29_AnswerThenMisunderstanding ==
  [][\A call \in PostCalls :
       PostCalled(call[1], call[2], call[3], call[4]) =>
         /\ PostCounts(call[1], call[2], call[3], call[4])
         /\ (call[1] # NoUser /\ call[3] /\ call[4]) =>
              Raw(call[1], call[2])' = RawAfterAnswer(call[1], call[2], TRUE) - Tenths(1)]_vars

\* C29 amended: as stated, except that after a correct answer with a
\* misunderstanding raw is min(1.0, raw + 0.05) lowered by 0.1 and floored at
\* 0: from a raw mastery below 0.05 it ends at 0.
C29_AnswerThenMisunderstandingFloored ==
  [][\A call \in PostCalls :
       PostCalled(call[1], call[2], call[3], call[4]) =>
         /\ PostCounts(call[1], call[2], call[3], call[4])
         /\ (call[1] # NoUser /\ call[3] /\ call[4]) =>
              Raw(call[1], call[2])' = Max(0, RawAfterAnswer(call[1], call[2], TRUE) - Tenths(1))]_vars

PostReturned == ret.op = "post_interaction_update"

\* a correct answer with a misunderstanding on a concept that had raw
\* mastery 0: the boost of 0.05 is taken back and raw ends at the floor
C29_Witness ==
  /\ PostReturned /\ ret.user # NoUser
  /\ ret.arg.correct /\ ret.arg.misunderstanding_detected
  /\ ret.arg.concept_id = "dual_aspect"
  /\ ConfusionCount(ret.user, "dual_aspect") = 1
  /\ "dual_aspect" \in DOMAIN user_graphs[ret.user].mastery
  /\ Raw(ret.user, "dual_aspect") = 0

\* an incorrect answer with a misunderstanding, from the seeded 0.9
C29_WitnessIncorrect ==
  /\ PostReturned /\ ret.user # NoUser
  /\ ~ret.arg.correct /\ ret.arg.misunderstanding_detected
  /\ ConfusionCount(ret.user, ret.arg.concept_id) = 2
  /\ Raw(ret.user, ret.arg.concept_id) = 700000

\* a call on a generator without a user graph, while a user's graph exists
C29_WitnessNoGraph ==
  PostReturned /\ ret.user = NoUser /\ Users # {}

(***************************************************************************)
(* Properties of the shipped tables                                        *)
(***************************************************************************)
\* the concepts a concept reaches over one or more dependency edges, collected
\* with a visited set, so that the collection ends on any table
ReachedFrom(cid) == UNION {collect_prerequisites(d, {}) : d \in Range(depends_on(cid))}

\* every id the tables mention is a defined concept, and no concept reaches itself
TablesWellFormed ==
  /\ \A cid \in ConceptIds : Range(depends_on(cid)) \subseteq ConceptIds
  /\ \A key \in TopicKeys : Range(TOPICS[key]) \subseteq ConceptIds
  /\ \A cid \in ConceptIds : cid \notin ReachedFrom(cid)

\* from an empty cache the depth of every concept and the transitive
\* prerequisites of every concept are computed, every topic is sorted, and the
\* depth computed for a concept exceeds that of each of its prerequisites
ComputationsEnd ==
  /\ \A cid \in ConceptIds :
       LET cache == compute_depth(EmptyDict, cid)
       IN  \A d \in Range(depends_on(cid)) : d \in DOMAIN cache /\ cache[d] < cache[cid]
  /\ \A cid \in ConceptIds, seed \in HashSeeds :
       Range(get_all_prerequisites(EmptyDict, seed, cid).ids) = ReachedFrom(cid)
  /\ \A key \in TopicKeys :
       Len(sort_by_depth(EmptyDict, TOPICS[key]).ids) = Len(TOPICS[key])

\* in the cache the calls have filled so far, depth rises along every edge
CachedDepthRises ==
  \A cid \in DOMAIN depth_cache :
    \A d \in Range(depends_on(cid)) : d \in DOMAIN depth_cache /\ depth_cache[d] < depth_cache[cid]

\* C30: the shipped tables are well-formed: every id in a depends_on list and
\* every member of a topic is a defined concept and depends_on is acyclic, so
\* the depth and the transitive prerequisites are computed for every concept
\* and every topic, and depth strictly increases along every dependency edge.
C30_TablesWellFormed == TablesWellFormed /\ ComputationsEnd /\ CachedDepthRises

\* the depths of the longest chains have been computed in one process
C30_Witness ==
  /\ "gradient_descent" \in DOMAIN depth_cache
  /\ "depreciation" \in DOMAIN depth_cache
  /\ "trial_balance" \in DOMAIN depth_cache
  /\ depth_cache["gradient_descent"] > depth_cache["loss_function"]

(***************************************************************************)
(* Properties of concurrent /generate requests                             *)
(***************************************************************************)
\* the request has built its plan
HasPlan(req) == req.pc \in {"provider", "done"} /\ req.status # "bad_request"
\* set_mastery's clamp
Clamped(level) == IF level < 0 THEN 0 ELSE IF level > Unit THEN Unit ELSE level
\* exposure_count of cid in u's graph of a store, 0 where there is none
ExposureIn(graphs, u, cid) ==
  IF u \in DOMAIN graphs THEN DictGet(graphs[u].exposure_count, cid, 0) ELSE 0
RawIn(graphs, u, cid) ==
  IF u \in DOMAIN graphs THEN DictGet(graphs[u].mastery, cid, 0) ELSE 0

\* the plan was read from a graph on which the request's own overrides were
\* in force, and is the plan for that graph with them
PlanReflectsOwnOverrides(req) ==
  /\ \A i \in DOMAIN req.user_mastery :
       get_mastery(req.planned_on, req.user_mastery[i][1]) = Clamped(req.user_mastery[i][2])
  /\ req.plan =
       Ids(build_structured_plan(req.topic, EmptyDict, hash_seed,
                                 apply_user_mastery(req.planned_on, req.user_mastery, clock)).concept_sequence)

\* every plan built so far has left its exposure increments in the store
NoExposureLost ==
  \A u \in Users, cid \in ConceptIds :
    ExposureCount(u, cid) =
      Cardinality({r \in DOMAIN requests :
                     /\ RequestUser(requests[r]) = u
                     /\ HasPlan(requests[r])
                     /\ cid \in Range(requests[r].plan)})

\* C24: within one generate request the overrides are applied, the plan is
\* built and the exposures are recorded without a suspension in between:
\* under any interleaving of concurrent requests of one user the plan of a
\* request reflects its own overrides, and no exposure increment is lost.
C24_RequestsDoNotInterleave ==
  /\ \A r \in DOMAIN requests : requests[r].pc \in {"provider", "done"}
  /\ \A r \in DOMAIN requests : HasPlan(requests[r]) => PlanReflectsOwnOverrides(requests[r])
  /\ NoExposureLost

\* two requests of one user awaiting the provider at once, with opposite
\* overrides for gradient and therefore different plans
C24_Witness ==
  \E r1, r2 \in DOMAIN requests :
    /\ r1 < r2
    /\ requests[r1].pc = "provider" /\ requests[r2].pc = "provider"
    /\ requests[r1].user_mastery = << << "gradient", 100000 >> >>
    /\ requests[r2].user_mastery = << << "gradient", 1500000 >> >>
    /\ requests[r1].plan = << "linear_model", "gradient" >>
    /\ requests[r2].plan = << "linear_model" >>
    /\ ExposureCount(RequestUser(requests[r1]), "linear_model") = 2

\* request r builds its plan in this step
BuildsPlan(r) ==
  /\ r \in DOMAIN requests'
  /\ HasPlan(requests'[r])
  /\ r \in DOMAIN requests => ~HasPlan(requests[r])
\* the text-generation call of request r ends in this step
ProviderEnds(r) ==
  /\ r \in DOMAIN requests
  /\ requests[r].pc = "provider"
  /\ requests'[r].pc = "done"

ExposuresOfRequest ==
  \A r \in 1..MaxRequests :
    /\ BuildsPlan(r) =>
         /\ requests'[r].pc = "provider"
         /\ \A u \in DOMAIN user_graphs', cid \in ConceptIds :
              ExposureIn(user_graphs', u, cid) =
                ExposureIn(user_graphs, u, cid)
                  + (IF u = RequestUser(requests'[r]) /\ cid \in Range(requests'[r].plan)
                     THEN 1 ELSE 0)
    /\ ProviderEnds(r) => user_graphs' = user_graphs

\* C27: a generate request raises exposure_count by exactly 1 for every
\* concept of the plan it built and for no other concept, before the
\* text-generation call is made; the end of that call, whatever its outcome,
\* and the validation after it leave the exposures as recorded.
C27_ExposuresRecordedBeforeProvider == [][ExposuresOfRequest]_vars

\* a request whose text-generation call failed, its exposures still recorded
C27_Witness ==
  \E r \in DOMAIN requests :
    /\ requests[r].status = "provider_error"
    /\ requests[r].plan = << "linear_model", "gradient" >>
    /\ ExposureCount(RequestUser(requests[r]), "gradient") >= 1
    /\ ExposureCount(RequestUser(requests[r]), "linear_model") >= 1

\* the same after output that did not validate
C27_WitnessInvalid ==
  \E r \in DOMAIN requests :
    /\ requests[r].status = "invalid"
    /\ requests[r].plan # << >>
    /\ \A i \in DOMAIN requests[r].plan :
         ExposureCount(RequestUser(requests[r]), requests[r].plan[i]) >= 1

\* request r ends as a bad request in this step
EndsBadRequest(r) ==
  /\ r \in DOMAIN requests'
  /\ requests'[r].status = "bad_request"
  /\ r \in DOMAIN requests => requests[r].status # "bad_request"

BadTopicStep ==
  \A r \in 1..MaxRequests :
    EndsBadRequest(r) =>
      LET req == requests'[r]
      IN  /\ req.topic \notin TopicKeys
          /\ "error" \in DOMAIN ret' /\ ret'.error = "bad_request"
          /\ RequestUser(req) \in DOMAIN user_graphs'
          /\ \A i \in DOMAIN req.user_mastery :
               RawIn(user_graphs', RequestUser(req), req.user_mastery[i][1])
                 = Clamped(req.user_mastery[i][2])
          /\ \A u \in DOMAIN user_graphs', cid \in ConceptIds :
               ExposureIn(user_graphs', u, cid) = ExposureIn(user_graphs, u, cid)

\* a request names a topic that does not resolve exactly when it ends as a bad
\* request; its user stays in the store, and its overrides stay in force for
\* as long as no later request overrides mastery
BadTopicPersists ==
  \A r \in DOMAIN requests :
    LET req == requests[r]
    IN  /\ (req.topic \notin TopicKeys) <=> (req.status = "bad_request")
        /\ req.status = "bad_request" =>
             /\ req.plan = << >>
             /\ RequestUser(req) \in Users
             /\ (\A later \in DOMAIN requests : later > r => requests[later].user_mastery = << >>)
                  => \A i \in DOMAIN req.user_mastery :
                       Raw(RequestUser(req), req.user_mastery[i][1]) = Clamped(req.user_mastery[i][2])

====
